---- MODULE Spec2Model ----
(***************************************************************************)
(* Coden: provenance tracking of machine-inserted code fragments.          *)
(*                                                                         *)
(* Two state machines share this module.                                   *)
(*                                                                         *)
(*   SpecFP  the existence evaluator of codefingerprint.ts                 *)
(*           (checkCodeExistence and its helpers) as called by             *)
(*           trackCodeChanges of codetracker.ts on one tracked region.     *)
(*   Spec    the extension's region ledger (extension.ts): document change *)
(*           events, save passes, periodic passes, the multi-method        *)
(*           tracker with its fusion, the in-memory lists and the          *)
(*           persisted modification log.  FairSpec is Spec with the        *)
(*           fairness of the 30-second interval timer.                     *)
(*                                                                         *)
(* Texts are strings; positions are 1-based; a "position after" is the     *)
(* index of the first character not consumed.  Every regular expression of *)
(* the source is translated into a scanner that returns what the           *)
(* JavaScript engine returns on the same subject.                          *)
(*                                                                         *)
(* Reals of the source are kept exact: confidences are integers in         *)
(* hundredths, thresholds in tenths, ratios are compared by cross          *)
(* multiplication.  No comparison of the source falls on a tie for the     *)
(* values reachable here, so IEEE rounding does not change an outcome.     *)
(*                                                                         *)
(* Presentation state that no tracking decision reads (documentStats,      *)
(* languageStats, documentContentCache, decorations, hover) is left out.   *)
(***************************************************************************)
EXTENDS Integers, Sequences, FiniteSets, TLC

(***************************************************************************)
(* Characters and character classes                                        *)
(***************************************************************************)
\* the character at position i, "" outside the string
Ch(s, i) == IF i >= 1 /\ i <= Len(s) THEN SubSeq(s, i, i) ELSE ""

LowerChars == {"a","b","c","d","e","f","g","h","i","j","k","l","m",
               "n","o","p","q","r","s","t","u","v","w","x","y","z"}
UpperChars == {"A","B","C","D","E","F","G","H","I","J","K","L","M",
               "N","O","P","Q","R","S","T","U","V","W","X","Y","Z"}
DigitChars == {"0","1","2","3","4","5","6","7","8","9"}
LetterChars == LowerChars \cup UpperChars
\* \w
WordChars == LetterChars \cup DigitChars \cup {"_"}
\* \s (and what String.prototype.trim removes)
SpaceChars == {" ", "\t", "\n", "\r", "\f"}

Min(a, b) == IF a <= b THEN a ELSE b
Max(a, b) == IF a >= b THEN a ELSE b

\* the characters at positions i..j that exist (String.prototype.substring)
Sub(s, i, j) ==
    IF Max(i, 1) > Min(j, Len(s)) THEN "" ELSE SubSeq(s, Max(i, 1), Min(j, Len(s)))

(***************************************************************************)
(* String primitives of the JavaScript runtime                             *)
(***************************************************************************)
\* String.prototype.includes
Includes(s, sub) ==
    \/ Len(sub) = 0
    \/ \E i \in 1..(Len(s) - Len(sub) + 1) : Sub(s, i, i + Len(sub) - 1) = sub

\* String.prototype.startsWith
StartsWith(s, prefix) ==
    Len(prefix) <= Len(s) /\ Sub(s, 1, Len(prefix)) = prefix

\* position after the longest run of characters of class cls starting at i
RECURSIVE ScanIn(_, _, _)
ScanIn(s, i, cls) ==
    IF i > Len(s) \/ Ch(s, i) \notin cls THEN i ELSE ScanIn(s, i + 1, cls)

\* position after the longest run of characters outside cls starting at i
RECURSIVE ScanNotIn(_, _, _)
ScanNotIn(s, i, cls) ==
    IF i > Len(s) \/ Ch(s, i) \in cls THEN i ELSE ScanNotIn(s, i + 1, cls)

\* last position of the longest run of non-space characters ending at j, minus one
RECURSIVE ScanBackSpace(_, _)
ScanBackSpace(s, j) ==
    IF j < 1 \/ Ch(s, j) \notin SpaceChars THEN j ELSE ScanBackSpace(s, j - 1)

\* String.prototype.trim
Trim(s) ==
    LET Between(a, b) == IF a > b THEN "" ELSE SubSeq(s, a, b)
    IN  Between(ScanIn(s, 1, SpaceChars), ScanBackSpace(s, Len(s)))

\* String.prototype.split('\n')
RECURSIVE SplitFrom(_, _)
SplitFrom(s, i) ==
    LET LineTo(e) == IF e > Len(s) THEN << Sub(s, i, Len(s)) >>
                     ELSE << Sub(s, i, e - 1) >> \o SplitFrom(s, e + 1)
    IN  LineTo(ScanNotIn(s, i, {"\n"}))

SplitLines(s) == SplitFrom(s, 1)

\* Array.prototype.join('\n')
RECURSIVE JoinLines(_)
JoinLines(ls) ==
    IF Len(ls) = 0 THEN ""
    ELSE IF Len(ls) = 1 THEN ls[1]
    ELSE ls[1] \o "\n" \o JoinLines(Tail(ls))

Contains(xs, v) == \E k \in 1..Len(xs) : xs[k] = v

\* [...new Set(xs)]: first occurrences, in order
RECURSIVE Unique(_)
Unique(xs) ==
    LET Add(init, last) == IF Contains(init, last) THEN init ELSE Append(init, last)
    IN  IF Len(xs) = 0 THEN << >>
        ELSE Add(Unique(SubSeq(xs, 1, Len(xs) - 1)), xs[Len(xs)])

\* \b holds before position i
BoundaryBefore(s, i) ==
    LET prevWord == i > 1 /\ Ch(s, i - 1) \in WordChars
        nextWord == i <= Len(s) /\ Ch(s, i) \in WordChars
    IN  prevWord # nextWord


(***************************************************************************)
(* Helper functions for text analysis (extension.ts)                       *)
(***************************************************************************)
ShortStatementLimit == 30

\* isShortStatement
IsShortStatement(text) ==
    Len(Trim(text)) < ShortStatementLimit /\ Len(SplitLines(text)) = 1

\* text.match(/\b([a-zA-Z]\w*)\b/g): the word runs that start with a letter
RECURSIVE TokensFrom(_, _)
TokensFrom(s, i) ==
    LET Token(e) == << Sub(s, i, e - 1) >> \o TokensFrom(s, e)
    IN  IF i > Len(s) THEN << >>
        ELSE IF BoundaryBefore(s, i) /\ Ch(s, i) \in LetterChars
             THEN Token(ScanIn(s, i, WordChars))
             ELSE TokensFrom(s, i + 1)

\* extractSignificantTokens
ExtractSignificantTokens(text) == Unique(TokensFrom(text, 1))

\* statementExistsInContent
StatementExistsInContent(statement, content) ==
    LET \* foundTokens.length >= Math.max(1, tokens.length * 0.6)
        Enough(found, all) == found >= 1 /\ 10 * found >= 6 * all
        Found(tokens) ==
            /\ Len(tokens) > 0
            /\ Enough(Cardinality({ k \in 1..Len(tokens) :
                                      Len(tokens[k]) > 2 /\ Includes(content, tokens[k]) }),
                      Len(tokens))
    IN  \/ Includes(content, Trim(statement))
        \/ Found(ExtractSignificantTokens(statement))

\* isImportStatement
IsImportStatement(text) ==
    LET \* /^import\s+{/, the spaces after "import" end at e
        ImportBrace(normalizedText, e) ==
            /\ StartsWith(normalizedText, "import")
            /\ e > 7
            /\ Ch(normalizedText, e) = "{"
        Test(normalizedText) ==
            \/ StartsWith(normalizedText, "import ")
            \/ StartsWith(normalizedText, "from ")
            \/ StartsWith(normalizedText, "#include ")
            \/ StartsWith(normalizedText, "using ")
            \/ ImportBrace(normalizedText, ScanIn(normalizedText, 7, SpaceChars))
    IN  Test(Trim(text))

QuoteChars == {"'", "\""}

\* /import\s+([^{\s]+|\{[^}]+\})\s+from\s+['"]([^'"]+)['"]/ attempted at i:
\* the captured module name in a one-element sequence, or << >>
ImportFromAt(s, i) ==
    LET \* ['"]([^'"]+)['"] opens at d, the name ends at e
        Quoted(d, e) ==
            IF Ch(s, d) \in QuoteChars /\ e > d + 1 /\ e <= Len(s)
            THEN << Sub(s, d + 1, e - 1) >>
            ELSE << >>
        \* from\s+ at c, its spaces end at d
        From(c, d) ==
            IF Sub(s, c, c + 3) = "from" /\ d > c + 4
            THEN Quoted(d, ScanNotIn(s, d + 1, QuoteChars))
            ELSE << >>
        \* \s+ from b, ending at c
        Spaces(b, c) ==
            IF c > b THEN From(c, ScanIn(s, c + 4, SpaceChars)) ELSE << >>
        \* group 1 ended at b, or b is 0
        After(b) ==
            IF b > 0 THEN Spaces(b, ScanIn(s, b, SpaceChars)) ELSE << >>
        \* group 1 at a: [^{\s]+ ends at b1, \{[^}]+\} closes at f
        Group(a, b1, f) ==
            After(IF b1 > a THEN b1
                  ELSE IF Ch(s, a) = "{" /\ f > a + 1 /\ Ch(s, f) = "}" THEN f + 1
                  ELSE 0)
        \* import\s+, its spaces end at a
        Import(a) ==
            IF a > i + 6
            THEN Group(a, ScanNotIn(s, a, SpaceChars \cup {"{"}), ScanNotIn(s, a + 1, {"}"}))
            ELSE << >>
    IN  IF Sub(s, i, i + 5) = "import" THEN Import(ScanIn(s, i + 6, SpaceChars))
        ELSE << >>

\* String.prototype.match with that expression: the leftmost attempt that matches
RECURSIVE ImportFromMatch(_, _)
ImportFromMatch(s, i) ==
    LET Try(m) == IF m # << >> THEN m ELSE ImportFromMatch(s, i + 1)
    IN  IF i > Len(s) THEN << >> ELSE Try(ImportFromAt(s, i))

\* /import\s+['"]([^'"]+)['"]/ attempted at i
SimpleImportAt(s, i) ==
    LET Quoted(a, e) ==
            IF /\ Sub(s, i, i + 5) = "import"
               /\ a > i + 6
               /\ Ch(s, a) \in QuoteChars
               /\ e > a + 1
               /\ e <= Len(s)
            THEN << Sub(s, a + 1, e - 1) >>
            ELSE << >>
        Import(a) == Quoted(a, ScanNotIn(s, a + 1, QuoteChars))
    IN  Import(ScanIn(s, i + 6, SpaceChars))

RECURSIVE SimpleImportMatch(_, _)
SimpleImportMatch(s, i) ==
    LET Try(m) == IF m # << >> THEN m ELSE SimpleImportMatch(s, i + 1)
    IN  IF i > Len(s) THEN << >> ELSE Try(SimpleImportAt(s, i))

(***************************************************************************)
(* new RegExp(`import\\s+[^{\\s]+|\\{[^}]+\\}\\s+from\\s+['"]${m}['"]`)    *)
(* The module name m is spliced into the pattern unescaped.  For module    *)
(* names over word characters and / - @ . + the pattern's tail is a list   *)
(* of atoms, each a literal character, the wildcard "." or the class       *)
(* ['"], optionally repeated by a following "+"; a "+" that follows a "+"  *)
(* has nothing to repeat and the constructor throws a SyntaxError.         *)
(***************************************************************************)
RegExpThrows(moduleName) == Includes(moduleName, "++")

\* the atoms of ['"]${m}['"]; the atom "'" stands for the class ['"], which no
\* module name contains
RECURSIVE TailAtoms(_, _)
TailAtoms(src, i) ==
    LET Atom(plus) == << [atom |-> Ch(src, i), plus |-> plus] >>
                      \o TailAtoms(src, IF plus THEN i + 2 ELSE i + 1)
    IN  IF i > Len(src) THEN << >>
        ELSE Atom(i < Len(src) /\ Ch(src, i + 1) = "+")

AtomMatches(atom, c) ==
    IF atom = "'" THEN c \in QuoteChars
    ELSE IF atom = "." THEN c \notin {"\n", "\r"}
    ELSE c = atom

\* position after the longest run of characters matching atom starting at p
RECURSIVE ScanAtom(_, _, _)
ScanAtom(s, p, atom) ==
    IF p > Len(s) \/ ~AtomMatches(atom, Ch(s, p)) THEN p ELSE ScanAtom(s, p + 1, atom)

\* the positions after a match of atoms[k..] that starts at a position of P
RECURSIVE AtomsEnds(_, _, _, _)
AtomsEnds(atoms, k, s, P) ==
    LET Step(it) ==
            IF it.plus
            THEN UNION { (p + 1)..(ScanAtom(s, p, it.atom)) : p \in P }
            ELSE { p + 1 : p \in { q \in P : q <= Len(s)
                                        /\ AtomMatches(it.atom, Ch(s, q)) } }
    IN  IF k > Len(atoms) \/ P = {} THEN P
        ELSE AtomsEnds(atoms, k + 1, s, Step(atoms[k]))

\* RegExp.prototype.test: either alternative matches somewhere in content
ImportRegexTest(moduleName, content) ==
    LET \* import\s+[^{\s]+ at i, the spaces end at a
        AltA(i, a) == /\ Sub(content, i, i + 5) = "import"
                      /\ a > i + 6
                      /\ a <= Len(content)
                      /\ Ch(content, a) # "{"
        \* from\s+ at g, its spaces end at h, then ['"]m['"]
        From(atoms, g, h) == /\ Sub(content, g, g + 3) = "from"
                             /\ h > g + 4
                             /\ AtomsEnds(atoms, 1, content, {h}) # {}
        \* \s+ from f + 1, ending at g
        Spaces(atoms, f, g) ==
            g > f + 1 /\ From(atoms, g, ScanIn(content, g + 4, SpaceChars))
        \* \{[^}]+\} at i, closing at f
        AltB(atoms, i, f) == /\ Ch(content, i) = "{"
                             /\ f > i + 1
                             /\ Ch(content, f) = "}"
                             /\ Spaces(atoms, f, ScanIn(content, f + 1, SpaceChars))
        Test(atoms) ==
            \E i \in 1..Len(content) :
                \/ AltA(i, ScanIn(content, i + 6, SpaceChars))
                \/ AltB(atoms, i, ScanNotIn(content, i + 1, {"}"}))
    IN  Test(TailAtoms("'" \o moduleName \o "'", 1))

\* importExistsInContent: threw is TRUE when the RegExp constructor throws,
\* the exception leaves the function
ImportExistsInContent(importText, content) ==
    LET Check(importLine, importMatches, simpleImport) ==
            IF Includes(content, importLine)
            THEN [threw |-> FALSE, exists |-> TRUE]
            ELSE IF importMatches # << >>
            THEN IF RegExpThrows(importMatches[1])
                 THEN [threw |-> TRUE, exists |-> FALSE]
                 ELSE [threw |-> FALSE,
                       exists |-> ImportRegexTest(importMatches[1], content)]
            ELSE IF simpleImport # << >>
            THEN [threw |-> FALSE,
                  exists |-> \/ Includes(content, "import \"" \o simpleImport[1] \o "\"")
                             \/ Includes(content, "import '" \o simpleImport[1] \o "'")]
            ELSE [threw |-> FALSE,
                  exists |-> StatementExistsInContent(importLine, content)]
        Lookup(importLine) ==
            Check(importLine, ImportFromMatch(importLine, 1),
                  SimpleImportMatch(importLine, 1))
    IN  Lookup(Trim(importText))


\* calculateSimilarity, as the ratio num/den
CalculateSimilarity(str1, str2) ==
    LET minLength == Min(Len(str1), Len(str2))
        matches == Cardinality({ i \in 1..minLength : Ch(str1, i) = Ch(str2, i) })
    IN  IF str1 = str2 THEN [num |-> 1, den |-> 1]
        ELSE IF Includes(str1, str2) \/ Includes(str2, str1) THEN [num |-> 9, den |-> 10]
        ELSE [num |-> matches, den |-> Max(Len(str1), Len(str2))]

\* a.num/a.den > b.num/b.den
RatioGreater(a, b) == a.num * b.den > b.num * a.den

\* s.replace(/\s+/g, ' ')
RECURSIVE CollapseSpaces(_, _)
CollapseSpaces(s, i) ==
    IF i > Len(s) THEN ""
    ELSE IF Ch(s, i) \in SpaceChars
         THEN " " \o CollapseSpaces(s, ScanIn(s, i, SpaceChars))
         ELSE Ch(s, i) \o CollapseSpaces(s, i + 1)

\* position of the first occurrence of sub in s at or after i, 0 when there is none
RECURSIVE IndexFrom(_, _, _)
IndexFrom(s, sub, i) ==
    IF i + Len(sub) - 1 > Len(s) THEN 0
    ELSE IF Sub(s, i, i + Len(sub) - 1) = sub THEN i
    ELSE IndexFrom(s, sub, i + 1)

\* s.replace(/<mark>.*$/, ''): cut at the first occurrence of mark
CutAt(s, mark) ==
    LET Cut(i) == IF i = 0 THEN s ELSE Sub(s, 1, i - 1)
    IN  Cut(IndexFrom(s, mark, 1))

\* normalizeLine
NormalizeLine(line) ==
    LET \* /^\s*import\s+/ on bare: "import" at a, its spaces end at b
        Import(bare, a, b) ==
            IF Sub(bare, a, a + 5) = "import" /\ b > a + 6
            THEN "import " \o Sub(bare, b, Len(bare))
            ELSE bare
        Lead(bare, a) == Import(bare, a, ScanIn(bare, a + 6, SpaceChars))
        Bare(bare) == Lead(bare, ScanIn(bare, 1, SpaceChars))
    IN  Bare(CutAt(CutAt(CollapseSpaces(Trim(line), 1), "#"), "//"))

(***************************************************************************)
(* The three anchor expressions of extractSemanticAnchors, each attempted  *)
(* at position i: the position after the match, 0 when it fails there.     *)
(* Every quantified part is a run of one class followed by a character     *)
(* outside that class, so the greedy match is the only one.                *)
(***************************************************************************)
\* /\b(\w+)\s+(\w+)\s*\([^)]*\)/
StructuralAt(s, i) ==
    LET e1 == ScanIn(s, i, WordChars)
        e2 == ScanIn(s, e1, SpaceChars)
        e3 == ScanIn(s, e2, WordChars)
        e4 == ScanIn(s, e3, SpaceChars)
        e5 == ScanNotIn(s, e4 + 1, {")"})
    IN  IF /\ BoundaryBefore(s, i)
           /\ e1 > i
           /\ e2 > e1
           /\ e3 > e2
           /\ Ch(s, e4) = "("
           /\ e5 <= Len(s)
        THEN e5 + 1
        ELSE 0

\* /\b(\w+)\s+(\w+)\s*=/
DeclarationAt(s, i) ==
    LET e1 == ScanIn(s, i, WordChars)
        e2 == ScanIn(s, e1, SpaceChars)
        e3 == ScanIn(s, e2, WordChars)
        e4 == ScanIn(s, e3, SpaceChars)
    IN  IF /\ BoundaryBefore(s, i)
           /\ e1 > i
           /\ e2 > e1
           /\ e3 > e2
           /\ Ch(s, e4) = "="
        THEN e4 + 1
        ELSE 0

\* /\b(\w+)\.\w+\(/
CallAt(s, i) ==
    LET e1 == ScanIn(s, i, WordChars)
        e2 == ScanIn(s, e1 + 1, WordChars)
    IN  IF /\ BoundaryBefore(s, i)
           /\ e1 > i
           /\ Ch(s, e1) = "."
           /\ e2 > e1 + 1
           /\ Ch(s, e2) = "("
        THEN e2 + 1
        ELSE 0

(***************************************************************************)
(* The expressions of codefingerprint.ts, each attempted at position i:    *)
(* the position after the match, 0 when it fails there.  The language is   *)
(* "javascript" throughout, which selects the import expression.           *)
(***************************************************************************)
LanguageId == "javascript"

\* \s+from\s+['"]([^'"]+)['"]
FromTailAt(s, e) ==
    LET c == ScanIn(s, e, SpaceChars)
        d == ScanIn(s, c + 4, SpaceChars)
        g == ScanNotIn(s, d + 1, QuoteChars)
    IN  IF /\ c > e
           /\ Sub(s, c, c + 3) = "from"
           /\ d > c + 4
           /\ Ch(s, d) \in QuoteChars
           /\ g > d + 1
           /\ g <= Len(s)
        THEN g + 1
        ELSE 0

\* the greedy [^{;]+ that began at q gives characters back until the tail matches
RECURSIVE LastFromTail(_, _, _)
LastFromTail(s, e, q) ==
    LET Try(m) == IF m # 0 THEN m ELSE LastFromTail(s, e - 1, q)
    IN  IF e <= q THEN 0 ELSE Try(FromTailAt(s, e))

\* (?:{[^}]+}|[^{;]+) at p, followed by the tail
ImportGroupAt(s, p) ==
    LET Try(braces) == IF braces # 0 THEN braces
                       ELSE LastFromTail(s, ScanNotIn(s, p, {"{", ";"}), p)
        Braces(f) == Try(IF Ch(s, p) = "{" /\ f > p + 1 /\ Ch(s, f) = "}"
                         THEN FromTailAt(s, f + 1) ELSE 0)
    IN  Braces(ScanNotIn(s, p + 1, {"}"}))

\* the greedy \s+ after "import" ends at p and gives characters back down to lo
RECURSIVE ImportSpaceBack(_, _, _)
ImportSpaceBack(s, p, lo) ==
    LET Try(m) == IF m # 0 THEN m ELSE ImportSpaceBack(s, p - 1, lo)
    IN  IF p < lo THEN 0 ELSE Try(ImportGroupAt(s, p))

\* /import\s+(?:{[^}]+}|[^{;]+)\s+from\s+['"]([^'"]+)['"]/
ImportElementAt(s, i) ==
    IF Sub(s, i, i + 5) = "import"
    THEN ImportSpaceBack(s, ScanIn(s, i + 6, SpaceChars), i + 7)
    ELSE 0

\* /function\s+([a-zA-Z0-9_]+)\s*\(|([a-zA-Z0-9_]+)\s*=\s*function\s*\(|
\*  ([a-zA-Z0-9_]+)\s*=\s*\([^)]*\)\s*=>|([a-zA-Z0-9_]+)\s*\([^)]*\)\s*{/
FunctionAt(s, i) ==
    LET \* function\s+name\s*\(
        a1 == ScanIn(s, i + 8, SpaceChars)
        a2 == ScanIn(s, a1, WordChars)
        a3 == ScanIn(s, a2, SpaceChars)
        declared == /\ Sub(s, i, i + 7) = "function"
                    /\ a1 > i + 8
                    /\ a2 > a1
                    /\ Ch(s, a3) = "("
        \* name\s*
        b == ScanIn(s, i, WordChars)
        c == ScanIn(s, b, SpaceChars)
        \* =\s*
        d == ScanIn(s, c + 1, SpaceChars)
        \* function\s*\(
        e == ScanIn(s, d + 8, SpaceChars)
        assigned == /\ b > i
                    /\ Ch(s, c) = "="
                    /\ Sub(s, d, d + 7) = "function"
                    /\ Ch(s, e) = "("
        \* \([^)]*\)\s*=>
        f == ScanNotIn(s, d + 1, {")"})
        g == ScanIn(s, f + 1, SpaceChars)
        arrow == /\ b > i
                 /\ Ch(s, c) = "="
                 /\ Ch(s, d) = "("
                 /\ f <= Len(s)
                 /\ Sub(s, g, g + 1) = "=>"
        \* name\s*\([^)]*\)\s*{
        h == ScanNotIn(s, c + 1, {")"})
        k == ScanIn(s, h + 1, SpaceChars)
        method == /\ b > i
                  /\ Ch(s, c) = "("
                  /\ h <= Len(s)
                  /\ Ch(s, k) = "{"
    IN  IF declared THEN a3 + 1
        ELSE IF assigned THEN e + 1
        ELSE IF arrow THEN g + 2
        ELSE IF method THEN k + 1
        ELSE 0

\* /class\s+([a-zA-Z0-9_]+)/
ClassAt(s, i) ==
    LET a == ScanIn(s, i + 5, SpaceChars)
        b == ScanIn(s, a, WordChars)
    IN  IF Sub(s, i, i + 4) = "class" /\ a > i + 5 /\ b > a THEN b ELSE 0

\* the characters of [a-zA-Z0-9_<>[\]]
TypeChars == WordChars \cup {"<", ">", "[", "]"}

\* /(?:const|let|var)\s+([a-zA-Z0-9_]+)\s*=|
\*  ([a-zA-Z0-9_]+)\s*:\s*[a-zA-Z0-9_<>[\]]+\s*=/
VariableAt(s, i) ==
    LET kw == IF Sub(s, i, i + 4) = "const" THEN 5
              ELSE IF Sub(s, i, i + 2) \in {"let", "var"} THEN 3
              ELSE 0
        a1 == ScanIn(s, i + kw, SpaceChars)
        a2 == ScanIn(s, a1, WordChars)
        a3 == ScanIn(s, a2, SpaceChars)
        declared == kw > 0 /\ a1 > i + kw /\ a2 > a1 /\ Ch(s, a3) = "="
        b == ScanIn(s, i, WordChars)
        c == ScanIn(s, b, SpaceChars)
        d == ScanIn(s, c + 1, SpaceChars)
        e == ScanIn(s, d, TypeChars)
        f == ScanIn(s, e, SpaceChars)
        typed == b > i /\ Ch(s, c) = ":" /\ e > d /\ Ch(s, f) = "="
    IN  IF declared THEN a3 + 1
        ELSE IF typed THEN f + 1
        ELSE 0

\* the last position in lo..j that holds character c, 0 when there is none
RECURSIVE LastIndexBack(_, _, _, _)
LastIndexBack(s, c, j, lo) ==
    IF j < lo THEN 0
    ELSE IF Ch(s, j) = c THEN j
    ELSE LastIndexBack(s, c, j - 1, lo)

\* /\b([a-zA-Z][a-zA-Z0-9_]*)\s*\([^(]*\)/: the greedy [^(]* runs to the next
\* "(" and gives characters back to the last ")" before it
FunctionCallAt(s, i) ==
    LET b == ScanIn(s, i, WordChars)
        c == ScanIn(s, b, SpaceChars)
        r == ScanNotIn(s, c + 1, {"("})
        close == LastIndexBack(s, ")", r - 1, c + 1)
    IN  IF /\ BoundaryBefore(s, i)
           /\ Ch(s, i) \in LetterChars
           /\ Ch(s, c) = "("
           /\ close > 0
        THEN close + 1
        ELSE 0

\* /\b([a-zA-Z][a-zA-Z0-9_]*)\s*\.\s*([a-zA-Z][a-zA-Z0-9_]*)/
PropertyAccessAt(s, i) ==
    LET b == ScanIn(s, i, WordChars)
        c == ScanIn(s, b, SpaceChars)
        d == ScanIn(s, c + 1, SpaceChars)
    IN  IF /\ BoundaryBefore(s, i)
           /\ Ch(s, i) \in LetterChars
           /\ Ch(s, c) = "."
           /\ Ch(s, d) \in LetterChars
        THEN ScanIn(s, d, WordChars)
        ELSE 0

\* String.prototype.match with the g flag, or the exec loop on a g expression,
\* for the expression that At attempts at a position: the matches from left to
\* right, the search resuming after each match
RECURSIVE GlobalMatches(_, _, _)
GlobalMatches(At(_, _), s, i) ==
    LET Found(e) == IF e > 0 THEN << Sub(s, i, e - 1) >> \o GlobalMatches(At, s, e)
                    ELSE GlobalMatches(At, s, i + 1)
    IN  IF i > Len(s) THEN << >> ELSE Found(At(s, i))

\* Array.prototype.filter on a sequence of strings: those longer than n
RECURSIVE LongerThan(_, _)
LongerThan(xs, n) ==
    IF Len(xs) = 0 THEN << >>
    ELSE (IF Len(Head(xs)) > n THEN << Head(xs) >> ELSE << >>) \o LongerThan(Tail(xs), n)

\* extractSemanticAnchors
ExtractSemanticAnchors(code) ==
    Unique(GlobalMatches(StructuralAt, code, 1)
           \o GlobalMatches(DeclarationAt, code, 1)
           \o GlobalMatches(CallAt, code, 1)
           \o LongerThan(ExtractSignificantTokens(code), 3))

\* anchor.replace(/\([^)]*\)/, '()')
EmptyFirstParens(anchor) ==
    LET Empty(i, e) == IF i = 0 \/ e > Len(anchor) THEN anchor
                       ELSE Sub(anchor, 1, i) \o Sub(anchor, e, Len(anchor))
        Open(i) == Empty(i, ScanNotIn(anchor, i + 1, {")"}))
    IN  Open(IndexFrom(anchor, "(", 1))

\* anchor.match(/(\w+)\(/): the first word run that a "(" follows, or << >>
RECURSIVE FnNameFrom(_, _)
FnNameFrom(s, i) ==
    LET Word(e) == IF e > i /\ Ch(s, e) = "(" THEN << Sub(s, i, e - 1) >>
                   ELSE FnNameFrom(s, Max(e, i + 1))
    IN  IF i > Len(s) THEN << >> ELSE Word(ScanIn(s, i, WordChars))

\* new RegExp(`${fnName}\\([^)]*\\)`, 'g') matches somewhere in text
CallOfExists(text, fnName) ==
    \E j \in 1..Len(text) :
        /\ Sub(text, j, j + Len(fnName)) = fnName \o "("
        /\ ScanNotIn(text, j + Len(fnName) + 1, {")"}) <= Len(text)

\* findFuzzyAnchorMatch: the match flag (the matched text is only reported)
FindFuzzyAnchorMatch(text, anchor) ==
    LET Named(fnNameMatch) == fnNameMatch # << >> /\ CallOfExists(text, fnNameMatch[1])
    IN  \/ Includes(text, anchor)
        \/ Includes(text, CollapseSpaces(anchor, 1))
        \/ Includes(text, EmptyFirstParens(anchor))
        \/ Named(FnNameFrom(anchor, 1))

(***************************************************************************)
(* The tracking methods (extension.ts).  Each returns its confidence in    *)
(* hundredths and its two flags.                                           *)
(***************************************************************************)
LineConfidence == 70
SemanticConfidenceShort == 85
SemanticConfidence == 80
SnapshotConfidenceShort == 85
SnapshotConfidence == 90
ImportConfidence == 95

\* currentLines.map(normalizeLine), computed once for the lines of the document
RECURSIVE NormalizeLines(_)
NormalizeLines(lines) ==
    IF Len(lines) = 0 THEN << >>
    ELSE << NormalizeLine(Head(lines)) >> \o NormalizeLines(Tail(lines))

\* the best match of one normalized fragment line among the normalized document
\* lines, folded over them as the loop of trackLineByLineSimilarity does
RECURSIVE BestMatch(_, _, _, _)
BestMatch(normalizedAiLine, normalizedDocLines, k, best) ==
    LET similarityThreshold ==
            IF Len(normalizedAiLine) < 10 THEN [num |-> 8, den |-> 10]
            ELSE IF Len(normalizedAiLine) < 20 THEN [num |-> 7, den |-> 10]
            ELSE [num |-> 6, den |-> 10]
        Better(similarity) ==
            IF RatioGreater(similarity, best.similarity)
            THEN [exists |-> RatioGreater(similarity, similarityThreshold),
                  similarity |-> similarity]
            ELSE best
    IN  IF k > Len(normalizedDocLines) THEN best
        ELSE BestMatch(normalizedAiLine, normalizedDocLines, k + 1,
                       Better(CalculateSimilarity(normalizedAiLine,
                                                  normalizedDocLines[k])))

\* the callback of aiLines.map in trackLineByLineSimilarity
LineSurvival(aiLine, currentText, normalizedDocLines, isSimpleStatement) ==
    LET Simple(exists) ==
            [exists |-> exists,
             similarity |-> IF exists THEN [num |-> 9, den |-> 10]
                            ELSE [num |-> 0, den |-> 1]]
        Survival(normalizedAiLine) ==
            IF Len(normalizedAiLine) < 5
            THEN [exists |-> TRUE, similarity |-> [num |-> 1, den |-> 1]]
            ELSE IF isSimpleStatement
            THEN Simple(StatementExistsInContent(aiLine, currentText))
            ELSE BestMatch(normalizedAiLine, normalizedDocLines, 1,
                           [exists |-> FALSE, similarity |-> [num |-> 0, den |-> 1]])
    IN  Survival(NormalizeLine(aiLine))

\* trackLineByLineSimilarity
TrackLineByLineSimilarity(currentText, regionText) ==
    LET \* deletionThreshold = min(0.3, 0.05 + (lines + length/50) * 0.02), in 1/5000
        DeletionThreshold(aiLines) ==
            Min(1500, 250 + 100 * Len(aiLines) + 2 * Len(regionText))
        \* lineSurvival holds the results of the map, each paired with its index
        Results(aiLines, lineSurvival) ==
            [confidence |-> LineConfidence,
             \* some 0.7 < similarity < 0.95
             modificationDetected |->
                 \E r \in lineSurvival :
                     /\ 10 * r[2].similarity.num > 7 * r[2].similarity.den
                     /\ 100 * r[2].similarity.num < 95 * r[2].similarity.den,
             \* survivalRate < deletionThreshold
             deletionDetected |->
                 5000 * Cardinality({ r \in lineSurvival : r[2].exists })
                     < DeletionThreshold(aiLines) * Max(1, Len(aiLines))]
        Map(aiLines, normalizedDocLines, isSimpleStatement) ==
            Results(aiLines,
                    { << k, LineSurvival(aiLines[k], currentText, normalizedDocLines,
                                         isSimpleStatement) >> :
                        k \in 1..Len(aiLines) })
    IN  Map(SplitLines(regionText), NormalizeLines(SplitLines(currentText)),
            IsShortStatement(regionText))

\* the tokens of a short statement that trackSemanticAnchors adds to the anchors
RECURSIVE AddTokens(_, _)
AddTokens(anchors, tokens) ==
    IF Len(tokens) = 0 THEN anchors
    ELSE AddTokens(IF Len(Head(tokens)) > 2 /\ ~Contains(anchors, Head(tokens))
                   THEN Append(anchors, Head(tokens))
                   ELSE anchors,
                   Tail(tokens))

\* the callback of anchors.map in trackSemanticAnchors
AnchorResult(anchor, currentText, isSimpleStatement) ==
    LET Result(exactMatch, fuzzyMatch) ==
            [exists |-> exactMatch \/ fuzzyMatch, modified |-> ~exactMatch /\ fuzzyMatch]
        Fuzzy(exactMatch) ==
            Result(exactMatch,
                   /\ ~exactMatch
                   /\ IF isSimpleStatement
                      THEN StatementExistsInContent(anchor, currentText)
                      ELSE Len(anchor) > 10 /\ FindFuzzyAnchorMatch(currentText, anchor))
    IN  Fuzzy(Includes(currentText, anchor))

\* trackSemanticAnchors
TrackSemanticAnchors(currentText, regionText) ==
    LET \* anchorResults holds the results of the map, each paired with its index
        Results(isSimpleStatement, anchors, anchorResults) ==
            [confidence |-> IF isSimpleStatement THEN SemanticConfidenceShort
                            ELSE SemanticConfidence,
             modificationDetected |-> \E r \in anchorResults : r[2].modified,
             \* survivalRate < (isSimpleStatement ? 0.1 : 0.2)
             deletionDetected |->
                 10 * Cardinality({ r \in anchorResults : r[2].exists })
                     < (IF isSimpleStatement THEN 1 ELSE 2) * Max(1, Len(anchors))]
        Map(isSimpleStatement, anchors) ==
            Results(isSimpleStatement, anchors,
                    { << k, AnchorResult(anchors[k], currentText, isSimpleStatement) >> :
                        k \in 1..Len(anchors) })
        Anchors(isSimpleStatement, anchors) ==
            Map(isSimpleStatement,
                IF isSimpleStatement
                THEN AddTokens(anchors, ExtractSignificantTokens(regionText))
                ELSE anchors)
    IN  Anchors(IsShortStatement(regionText), ExtractSemanticAnchors(regionText))

\* compareWithSnapshot
CompareWithSnapshot(currentContent, regionText, previousContent) ==
    LET TokenFound(tokens) ==
            \E k \in 1..Len(tokens) :
                Len(tokens[k]) > 2 /\ Includes(currentContent, tokens[k])
        FragmentFound(fragments) ==
            \E k \in 1..Len(fragments) : Includes(currentContent, fragments[k])
        Results(isSimpleStatement, deleted, modified) ==
            [confidence |-> IF isSimpleStatement THEN SnapshotConfidenceShort
                            ELSE SnapshotConfidence,
             modificationDetected |-> modified,
             deletionDetected |-> deleted,
             modType |-> IF ~modified THEN "unknown"
                         ELSE IF isSimpleStatement THEN "statement_token_modified"
                         ELSE IF Len(currentContent) < Len(previousContent)
                              THEN "partial_deletion"
                         ELSE IF Len(currentContent) > Len(previousContent)
                              THEN "addition_modification"
                         ELSE "content_change"]
        Compare(isSimpleStatement, originalExists, currentExists) ==
            Results(isSimpleStatement,
                    originalExists /\ ~currentExists,
                    /\ ~currentExists
                    /\ IF isSimpleStatement
                       THEN TokenFound(ExtractSignificantTokens(regionText))
                       ELSE FragmentFound(GlobalMatches(StructuralAt, regionText, 1)))
        Exists(isSimpleStatement) ==
            Compare(isSimpleStatement,
                    Includes(previousContent, Trim(regionText)),
                    IF isSimpleStatement
                    THEN StatementExistsInContent(regionText, currentContent)
                    ELSE Includes(currentContent, Trim(regionText)))
    IN  Exists(IsShortStatement(regionText))

\* a flag as the number JavaScript multiplies with
Flag(b) == IF b THEN 1 ELSE 0

\* a fusion that follows the line-similarity method
LineMethodDecides(lineResults, semanticResults, snapshotResults) ==
    [modificationDetected |-> lineResults.modificationDetected,
     deletionDetected |-> lineResults.deletionDetected,
     confidence |-> [num |-> lineResults.confidence + semanticResults.confidence
                             + snapshotResults.confidence,
                     den |-> 300],
     modType |-> snapshotResults.modType]

\* a fusion that lets any one method decide
AnyMethodDecides(lineResults, semanticResults, snapshotResults) ==
    [modificationDetected |-> \/ lineResults.modificationDetected
                              \/ semanticResults.modificationDetected
                              \/ snapshotResults.modificationDetected,
     deletionDetected |-> \/ lineResults.deletionDetected
                          \/ semanticResults.deletionDetected
                          \/ snapshotResults.deletionDetected,
     confidence |-> [num |-> lineResults.confidence + semanticResults.confidence
                             + snapshotResults.confidence,
                     den |-> 300],
     modType |-> snapshotResults.modType]

\* combineTrackingResults; confidence is the ratio totalConfidence / 3
CombineTrackingResults(lineResults, semanticResults, snapshotResults) ==
    LET totalConfidence == lineResults.confidence + semanticResults.confidence
                           + snapshotResults.confidence
        weightedModification ==
              Flag(lineResults.modificationDetected) * lineResults.confidence
            + Flag(semanticResults.modificationDetected) * semanticResults.confidence
            + Flag(snapshotResults.modificationDetected) * snapshotResults.confidence
        weightedDeletion ==
              Flag(lineResults.deletionDetected) * lineResults.confidence
            + Flag(semanticResults.deletionDetected) * semanticResults.confidence
            + Flag(snapshotResults.deletionDetected) * snapshotResults.confidence
    IN  [modificationDetected |-> 2 * weightedModification > totalConfidence,
         deletionDetected |-> 2 * weightedDeletion > totalConfidence,
         confidence |-> [num |-> totalConfidence, den |-> 300],
         modType |-> snapshotResults.modType]

\* the fusion trackAICodeChanges makes itself for an import region
CombineImportResults(lineResults, semanticResults, snapshotResults, importResults) ==
    LET totalConfidence == lineResults.confidence + semanticResults.confidence
                           + snapshotResults.confidence + importResults.confidence
        weightedModification ==
              Flag(lineResults.modificationDetected) * lineResults.confidence
            + Flag(semanticResults.modificationDetected) * semanticResults.confidence
            + Flag(snapshotResults.modificationDetected) * snapshotResults.confidence
            + Flag(importResults.modificationDetected) * importResults.confidence
        weightedDeletion ==
              Flag(lineResults.deletionDetected) * lineResults.confidence
            + Flag(semanticResults.deletionDetected) * semanticResults.confidence
            + Flag(snapshotResults.deletionDetected) * snapshotResults.confidence
            + Flag(importResults.deletionDetected) * importResults.confidence
    IN  [modificationDetected |-> 2 * weightedModification > totalConfidence,
         \* weightedDeletion > 0.7
         deletionDetected |-> 10 * weightedDeletion > 7 * totalConfidence,
         confidence |-> [num |-> totalConfidence, den |-> 400],
         modType |-> snapshotResults.modType]

\* the result of a method that does not apply
NotApplicable ==
    [confidence |-> 0, modificationDetected |-> FALSE, deletionDetected |-> FALSE,
     modType |-> "unknown"]

\* what trackAICodeChanges computes for one region: the four method results and,
\* unless the import check threw, the fused results
EvaluateRegion(currentContent, regionText, onSave, snapshots) ==
    LET Fuse(isImport, lineResults, semanticResults, snapshotResults, importResults,
             threw) ==
            [threw |-> threw,
             isImport |-> isImport,
             line |-> lineResults,
             semantic |-> semanticResults,
             snapshot |-> snapshotResults,
             import |-> importResults,
             results |-> IF isImport
                         THEN CombineImportResults(lineResults, semanticResults,
                                                   snapshotResults, importResults)
                         ELSE CombineTrackingResults(lineResults, semanticResults,
                                                     snapshotResults)]
        Methods(isImport, importCheck) ==
            Fuse(isImport,
                 TrackLineByLineSimilarity(currentContent, regionText),
                 TrackSemanticAnchors(currentContent, regionText),
                 IF onSave /\ snapshots.has
                 THEN CompareWithSnapshot(currentContent, regionText, snapshots.content)
                 ELSE NotApplicable,
                 IF isImport
                 THEN [confidence |-> ImportConfidence,
                       modificationDetected |-> FALSE,
                       deletionDetected |-> ~importCheck.exists,
                       modType |-> "import_check"]
                 ELSE NotApplicable,
                 importCheck.threw)
        Import(isImport) ==
            Methods(isImport,
                    IF isImport THEN ImportExistsInContent(regionText, currentContent)
                    ELSE [threw |-> FALSE, exists |-> TRUE])
    IN  Import(IsImportStatement(regionText))

(***************************************************************************)
(* Fingerprints and the existence evaluator (codefingerprint.ts).          *)
(* A structural element keeps its pattern and its importance in tenths;    *)
(* its name and the hash of the fingerprint are never read.                *)
(***************************************************************************)
ImportImportance == 5
FunctionImportance == 8
ClassImportance == 9
VariableImportance == 6

\* the elements of one type, from the matches found of its expression
ElementsOf(type, found, importance) ==
    [ k \in 1..Len(found) |->
        [type |-> type, pattern |-> found[k], importance |-> importance] ]

\* extractStructuralElements
ExtractStructuralElements(code) ==
    ElementsOf("import", GlobalMatches(ImportElementAt, code, 1), ImportImportance)
    \o ElementsOf("function", GlobalMatches(FunctionAt, code, 1), FunctionImportance)
    \o ElementsOf("class", GlobalMatches(ClassAt, code, 1), ClassImportance)
    \o ElementsOf("variable", GlobalMatches(VariableAt, code, 1), VariableImportance)

CommonKeywords ==
    {"function", "class", "const", "let", "var", "return", "if", "else", "for",
     "while", "import", "export", "from", "require", "string", "number", "boolean",
     "object", "array", "true", "false", "null", "undefined"}

\* Array.prototype.filter: the identifiers that are no common keyword
RECURSIVE NotKeywords(_)
NotKeywords(xs) ==
    IF Len(xs) = 0 THEN << >>
    ELSE (IF Head(xs) \in CommonKeywords THEN << >> ELSE << Head(xs) >>)
         \o NotKeywords(Tail(xs))

\* extractSignificantIdentifiers: /\b([a-zA-Z][a-zA-Z0-9_]{2,})\b/g finds the
\* word runs that start with a letter and have three characters or more
ExtractSignificantIdentifiers(code) ==
    Unique(NotKeywords(LongerThan(TokensFrom(code, 1), 2)))

\* the function-call matches whose name has more than two characters
RECURSIVE NamedCalls(_)
NamedCalls(xs) ==
    IF Len(xs) = 0 THEN << >>
    ELSE (IF ScanIn(Head(xs), 1, WordChars) - 1 > 2 THEN << Head(xs) >> ELSE << >>)
         \o NamedCalls(Tail(xs))

\* extractSemanticPatterns
ExtractSemanticPatterns(code) ==
    Unique(NamedCalls(GlobalMatches(FunctionCallAt, code, 1))
           \o GlobalMatches(PropertyAccessAt, code, 1)
           \o (IF Includes(code, "=>") THEN << "arrow_function" >> ELSE << >>)
           \o (IF Includes(code, "class") THEN << "class_definition" >> ELSE << >>)
           \o (IF Includes(code, "import") THEN << "import_statement" >> ELSE << >>)
           \o (IF Includes(code, "async") THEN << "async_code" >> ELSE << >>)
           \o (IF Includes(code, "try") /\ Includes(code, "catch")
               THEN << "error_handling" >> ELSE << >>))

\* generateCodeFingerprint
GenerateCodeFingerprint(code) ==
    [originalText |-> code,
     lineCount |-> Len(SplitLines(code)),
     structuralElements |-> ExtractStructuralElements(code),
     identifiers |-> ExtractSignificantIdentifiers(code),
     language |-> LanguageId,
     semanticPatterns |-> ExtractSemanticPatterns(code)]

\* the sum of the importances of the elements with an index in K
RECURSIVE SumImportance(_, _)
SumImportance(elements, K) ==
    IF K = {} THEN 0
    ELSE LET k == CHOOSE x \in K : TRUE
         IN  elements[k].importance + SumImportance(elements, K \ {k})

\* checkStructuralElements: overallScore as the ratio num/den
CheckStructuralElements(elements, content) ==
    LET Score(foundWeight, totalWeight) ==
            IF totalWeight > 0 THEN [num |-> foundWeight, den |-> totalWeight]
            ELSE [num |-> 0, den |-> 1]
    IN  Score(SumImportance(elements, { k \in 1..Len(elements) :
                                          Includes(content, elements[k].pattern) }),
              SumImportance(elements, 1..Len(elements)))

\* checkIdentifiers and checkPatterns: the share of the strings found in content
CheckStrings(strings, content) ==
    IF Len(strings) > 0
    THEN [num |-> Cardinality({ k \in 1..Len(strings) : Includes(content, strings[k]) }),
          den |-> Len(strings)]
    ELSE [num |-> 0, den |-> 1]

CheckIdentifiers(identifiers, content) == CheckStrings(identifiers, content)

CheckPatterns(patterns, content) == CheckStrings(patterns, content)

StructuralWeight == 5
IdentifierWeight == 3
PatternWeight == 2

\* a confidence that the line count does not damp
UndampedConfidence(results, fingerprint) ==
    LET Capped(num, den) ==
            IF num > den THEN [num |-> 1, den |-> 1] ELSE [num |-> num, den |-> den]
        Weighted(st, id, pt) ==
            Capped(StructuralWeight * st.num * id.den * pt.den
                   + IdentifierWeight * id.num * st.den * pt.den
                   + PatternWeight * pt.num * st.den * id.den,
                   10 * st.den * id.den * pt.den)
    IN  Weighted(results.structuralMatches, results.identifierMatches,
                 results.patternMatches)

\* calculateConfidence as the ratio num/den: the weights are in tenths and the
\* complexity factor min(1, 0.3 + lineCount * 0.05) in hundredths
CalculateConfidence(results, fingerprint) ==
    LET complexityFactor == Min(100, 30 + 5 * fingerprint.lineCount)
        Capped(num, den) ==
            IF num > den THEN [num |-> 1, den |-> 1] ELSE [num |-> num, den |-> den]
        Weighted(st, id, pt) ==
            Capped((StructuralWeight * st.num * id.den * pt.den
                    + IdentifierWeight * id.num * st.den * pt.den
                    + PatternWeight * pt.num * st.den * id.den) * complexityFactor,
                   10 * st.den * id.den * pt.den * 100)
    IN  Weighted(results.structuralMatches, results.identifierMatches,
                 results.patternMatches)

\* the threshold with the adjustment for the element count turned round
ThresholdRaisedByElements(fingerprint) ==
    LET base == IF fingerprint.lineCount <= 1 THEN 5
                ELSE IF fingerprint.lineCount >= 10 THEN 2
                ELSE 3
        elementCount == Len(fingerprint.structuralElements)
    IN  Max(1, Min(7, IF elementCount = 0 THEN base - 1
                      ELSE IF elementCount >= 3 THEN base + 1
                      ELSE base))

\* calculateExistenceThreshold, in tenths
CalculateExistenceThreshold(fingerprint) ==
    LET base == IF fingerprint.lineCount <= 1 THEN 5
                ELSE IF fingerprint.lineCount >= 10 THEN 2
                ELSE 3
        elementCount == Len(fingerprint.structuralElements)
        threshold == IF elementCount = 0 THEN base + 1
                     ELSE IF elementCount >= 3 THEN base - 1
                     ELSE base
    IN  Max(1, Min(7, threshold))

\* the verdict with modified decided by the upper bar alone
VerdictIgnoringExistence(confidence, existenceThreshold) ==
    [exists |-> 10 * confidence.num >= existenceThreshold * confidence.den,
     modified |-> 10 * confidence.num < (existenceThreshold + 2) * confidence.den,
     confidence |-> confidence, matchType |-> "analysis"]

\* the object checkCodeExistence returns after the analysis; modificationThreshold
\* is existenceThreshold + 0.2
ExistenceVerdict(confidence, existenceThreshold) ==
    LET Verdict(modificationThreshold, exists) ==
            [exists |-> exists,
             modified |-> exists /\ 10 * confidence.num
                                        < modificationThreshold * confidence.den,
             confidence |-> confidence, matchType |-> "analysis"]
    IN  Verdict(existenceThreshold + 2,
                10 * confidence.num >= existenceThreshold * confidence.den)

\* checkCodeExistence after the quick check: the detailed analysis
AnalyseCodeExistence(fingerprint, currentContent) ==
    ExistenceVerdict(
        CalculateConfidence(
            [structuralMatches |->
                 CheckStructuralElements(fingerprint.structuralElements, currentContent),
             identifierMatches |->
                 CheckIdentifiers(fingerprint.identifiers, currentContent),
             patternMatches |->
                 CheckPatterns(fingerprint.semanticPatterns, currentContent)],
            fingerprint),
        CalculateExistenceThreshold(fingerprint))

\* the evaluation without the quick check
AnalysisAlone(fingerprint, currentContent) ==
    AnalyseCodeExistence(fingerprint, currentContent)

\* checkCodeExistence
CheckCodeExistence(fingerprint, currentContent) ==
    IF Includes(currentContent, fingerprint.originalText)
    THEN [exists |-> TRUE, modified |-> FALSE,
          confidence |-> [num |-> 1, den |-> 1], matchType |-> "exact_match"]
    ELSE AnalyseCodeExistence(fingerprint, currentContent)

\* a call that flags the region modified whenever the text is not found unchanged
TrackMarkingEveryChange(region, currentContent) ==
    LET Update(fingerprint, existenceResult) ==
            [region EXCEPT
                !.hasFingerprint = TRUE,
                !.fingerprint = fingerprint,
                !.lastTrackingResult =
                    [exists |-> existenceResult.exists,
                     modified |-> existenceResult.modified,
                     confidence |-> existenceResult.confidence,
                     changeType |-> IF existenceResult.exists
                                    THEN (IF existenceResult.modified THEN "modified"
                                          ELSE "unchanged")
                                    ELSE "deleted",
                     matchType |-> existenceResult.matchType],
                !.modified = ~existenceResult.exists \/ existenceResult.modified,
                !.deleted = ~existenceResult.exists]
        Check(fingerprint) ==
            Update(fingerprint, CheckCodeExistence(fingerprint, currentContent))
    IN  Check(IF region.hasFingerprint THEN region.fingerprint
              ELSE GenerateCodeFingerprint(region.text))

\* trackCodeChanges: the region after the call.  The optional flags modified and
\* deleted are FALSE while unset
TrackCodeChanges(region, currentContent) ==
    LET Update(fingerprint, existenceResult) ==
            [region EXCEPT
                !.hasFingerprint = TRUE,
                !.fingerprint = fingerprint,
                !.lastTrackingResult =
                    [exists |-> existenceResult.exists,
                     modified |-> existenceResult.modified,
                     confidence |-> existenceResult.confidence,
                     changeType |-> IF existenceResult.exists
                                    THEN (IF existenceResult.modified THEN "modified"
                                          ELSE "unchanged")
                                    ELSE "deleted",
                     matchType |-> existenceResult.matchType],
                !.modified = existenceResult.modified,
                !.deleted = ~existenceResult.exists]
        Check(fingerprint) ==
            Update(fingerprint, CheckCodeExistence(fingerprint, currentContent))
    IN  Check(IF region.hasFingerprint THEN region.fingerprint
              ELSE GenerateCodeFingerprint(region.text))

\* the result of a region that has not been tracked
NoTrackingResult ==
    [exists |-> FALSE, modified |-> FALSE, confidence |-> [num |-> 0, den |-> 1],
     changeType |-> "none", matchType |-> "none"]

\* createTrackedRegion
CreateTrackedRegion(text) ==
    [text |-> text, hasFingerprint |-> TRUE,
     fingerprint |-> GenerateCodeFingerprint(text),
     modified |-> FALSE, deleted |-> FALSE,
     lastTrackingResult |-> NoTrackingResult]


(***************************************************************************)
(* The region ledger (extension.ts).                                       *)
(*                                                                         *)
(* One document is tracked.  A region is the record logSuggestion pushes;  *)
(* its id is a counter value standing for the UUID, its timestamp is left  *)
(* out.  Lines and characters of regions and changes are 0-based, as in    *)
(* the editor.  A change event carries one content change.                 *)
(***************************************************************************)
\* the offset of position (line, character) in a document with these lines
RECURSIVE OffsetOf(_, _, _)
OffsetOf(lines, line, character) ==
    IF line = 0 THEN character
    ELSE Len(lines[1]) + 1 + OffsetOf(Tail(lines), line - 1, character)

\* the document after the editor applied the change
ApplyChange(doc, change) ==
    LET Splice(from, to) == Sub(doc, 1, from) \o change.text \o Sub(doc, to + 1, Len(doc))
        At(lines) == Splice(OffsetOf(lines, change.startLine, change.startChar),
                            OffsetOf(lines, change.endLine, change.endChar))
    IN  At(SplitLines(doc))

\* a change replaces or deletes something: its range is not empty
RangeNotEmpty(change) ==
    change.startLine # change.endLine \/ change.startChar # change.endChar

\* /\b(w1|w2|...)\b/.test(text)
HasWord(text, words) ==
    LET tokens == TokensFrom(text, 1)
    IN  \E k \in 1..Len(tokens) : tokens[k] \in words

\* isProbablyCodenSuggestion for a javascript document
IsProbablyCodenSuggestion(text, regions, change) ==
    LET isModifyingExistingRegion ==
            \E k \in 1..Len(regions) :
                \/ /\ change.startLine >= regions[k].startLine
                   /\ change.startLine <= regions[k].endLine
                \/ /\ change.endLine >= regions[k].startLine
                   /\ change.endLine <= regions[k].endLine
                \/ /\ change.startLine <= regions[k].startLine
                   /\ change.endLine >= regions[k].endLine
        lineCount == Len(SplitLines(text))
        hasCodeStructures ==
            \E i \in 1..Len(text) : Ch(text, i) \in {"(", ")", "{", "}", "[", "]", ";"}
        hasAutoCompletePatterns ==
            \/ Includes(text, "=>")
            \/ Includes(text, "function")
            \/ Includes(text, "return")
            \/ Includes(text, "const ")
            \/ Includes(text, "let ")
            \/ Includes(text, "var ")
        hasProgrammingKeywords ==
            HasWord(text, {"if", "else", "for", "while", "switch", "case", "class",
                           "import", "export"})
        hasLanguageSpecificPatterns ==
            HasWord(text, {"async", "await", "const", "let", "var", "function",
                           "class", "interface", "import", "export"})
    IN  IF Len(text) <= 3 THEN FALSE
        ELSE IF isModifyingExistingRegion THEN FALSE
        ELSE IF lineCount > 1 /\ (hasCodeStructures \/ hasProgrammingKeywords
                                  \/ hasLanguageSpecificPatterns) THEN TRUE
        ELSE (hasCodeStructures /\ hasAutoCompletePatterns) \/ hasLanguageSpecificPatterns

\* the region logSuggestion pushes for the change
NewRegion(id, change) ==
    [id |-> id,
     startLine |-> change.startLine,
     endLine |-> change.startLine + Len(SplitLines(change.text)) - 1,
     startChar |-> change.startChar,
     endChar |-> change.endChar,
     text |-> change.text,
     modified |-> FALSE,
     deleted |-> FALSE]

\* Array.prototype.find by id finds a record
HasId(records, id) == \E k \in 1..Len(records) : records[k].id = id

\* the ids of the records of a list
IdsOf(records) == { records[k].id : k \in 1..Len(records) }

\* handleModification on the region at index i of the ledger state st
HandleModification(st, i) ==
    LET region == st.regions[i]
        marked == [st EXCEPT !.regions[i].modified = TRUE]
    IN  IF HasId(st.modifiedAICode, region.id) THEN marked
        ELSE [marked EXCEPT !.modifiedAICode =
                  Append(@, [id |-> region.id,
                             confidenceScore |-> [num |-> 1, den |-> 1],
                             modType |-> "inline_edit"])]

\* the first record with this id gets the modification type
SetModType(records, id, modType) ==
    LET first == CHOOSE k \in 1..Len(records) :
                     /\ records[k].id = id
                     /\ \A j \in 1..(k - 1) : records[j].id # id
    IN  IF HasId(records, id) THEN [records EXCEPT ![first].modType = modType]
        ELSE records

\* handleDeletion
HandleDeletion(st, i, change) ==
    LET region == st.regions[i]
        isFullDeletion == /\ change.startLine <= region.startLine
                          /\ change.endLine >= region.endLine
        edited == HandleModification(st, i)
    IN  IF isFullDeletion
        THEN [st EXCEPT !.deletedAICode = Append(@, [id |-> region.id]),
                        !.regions[i].deleted = TRUE,
                        !.deletionVerdicts = @ \cup {region.id}]
        ELSE [edited EXCEPT !.modifiedAICode =
                  SetModType(@, region.id, "partial_deletion")]

\* the loop of checkForAICodeChanges over the regions, from index i on
RECURSIVE CheckRegions(_, _, _)
CheckRegions(st, i, change) ==
    IF i > Len(st.regions) THEN st
    ELSE LET region == st.regions[i]
             changeStartsBeforeRegionEnds ==
                 \/ change.startLine < region.endLine
                 \/ /\ change.startLine = region.endLine
                    /\ change.startChar <= region.endChar
             changeEndsAfterRegionStarts ==
                 \/ change.endLine > region.startLine
                 \/ /\ change.endLine = region.startLine
                    /\ change.endChar >= region.startChar
             overlaps == changeStartsBeforeRegionEnds /\ changeEndsAfterRegionStarts
             isDeletion == change.text = "" /\ RangeNotEmpty(change)
             isModification == change.text # "" /\ RangeNotEmpty(change)
         IN  CheckRegions(IF overlaps /\ isModification THEN HandleModification(st, i)
                          ELSE IF overlaps /\ isDeletion THEN HandleDeletion(st, i, change)
                          ELSE st,
                          i + 1, change)

\* Array.prototype.filter: the regions not marked deleted
RECURSIVE NotDeleted(_)
NotDeleted(regions) ==
    IF Len(regions) = 0 THEN << >>
    ELSE (IF Head(regions).deleted THEN << >> ELSE << Head(regions) >>)
         \o NotDeleted(Tail(regions))

\* the forEach of updateModificationTracking: the in-memory records whose id the
\* persisted list lacks are appended to it, as made by the operator persisted
RECURSIVE AddMissing(_, _, _)
AddMissing(log, memory, k) ==
    IF k > Len(memory) THEN log
    ELSE AddMissing(IF HasId(log, memory[k].id) THEN log
                    ELSE Append(log, memory[k]),
                    memory, k + 1)

\* the persisted form of the in-memory deletion records
DeletionsToPersist(deletedCode) ==
    [ k \in 1..Len(deletedCode) |->
        [id |-> deletedCode[k].id, confidenceScore |-> [num |-> 1, den |-> 1]] ]

\* updateModificationTracking
UpdateModificationTracking(st) ==
    [st EXCEPT !.modifications = AddMissing(@, st.modifiedAICode, 1),
               !.deletions = AddMissing(@, DeletionsToPersist(st.deletedAICode), 1)]

\* checkForAICodeChanges
CheckForAICodeChanges(st, change) ==
    LET Filter(checked) ==
            UpdateModificationTracking(
                [checked EXCEPT !.regions = NotDeleted(checked.regions)])
    IN  IF Len(st.regions) = 0 THEN st ELSE Filter(CheckRegions(st, 1, change))

\* recordModification
RecordModification(st, region, results) ==
    LET record == [id |-> region.id,
                   confidenceScore |-> results.confidence,
                   modType |-> results.modType]
    IN  [st EXCEPT !.modifications = Append(@, record),
                   !.modifiedAICode = Append(@, record)]

\* recordDeletion
RecordDeletion(st, region, results) ==
    [st EXCEPT !.deletions = Append(@, [id |-> region.id,
                                        confidenceScore |-> results.confidence]),
               !.deletedAICode = Append(@, [id |-> region.id])]

\* no splice
KeepRegion(regions, id) == regions

\* regions.findIndex by id, then regions.splice(regionIndex, 1)
SpliceRegion(regions, id) ==
    LET regionIndex == CHOOSE k \in 1..Len(regions) :
                           /\ regions[k].id = id
                           /\ \A j \in 1..(k - 1) : regions[j].id # id
    IN  IF HasId(regions, id)
        THEN SubSeq(regions, 1, regionIndex - 1)
             \o SubSeq(regions, regionIndex + 1, Len(regions))
        ELSE regions

\* the fused results of a region no pass has evaluated since the last change
NoResults ==
    [modificationDetected |-> FALSE, deletionDetected |-> FALSE,
     confidence |-> [num |-> 0, den |-> 1], modType |-> "none"]

NotEvaluated ==
    [onSave |-> FALSE, isImport |-> FALSE,
     line |-> [confidence |-> 0, modificationDetected |-> FALSE,
               deletionDetected |-> FALSE],
     semantic |-> [confidence |-> 0, modificationDetected |-> FALSE,
                   deletionDetected |-> FALSE],
     snapshot |-> NotApplicable, import |-> NotApplicable,
     latest |-> NoResults, changed |-> FALSE, resignalled |-> FALSE]

\* what the last pass since the last document change computed for a region,
\* whether the pass before it, when it was of the same kind (save or periodic),
\* had reached another verdict, and whether this pass signalled a modification
\* for a region already flagged modified
Observe(seen, ev, onSave, region) ==
    [onSave |-> onSave, isImport |-> ev.isImport,
     line |-> ev.line, semantic |-> ev.semantic,
     snapshot |-> ev.snapshot, import |-> ev.import,
     latest |-> ev.results,
     changed |-> /\ seen.latest # NoResults
                 /\ seen.onSave = onSave
                 /\ seen.latest # ev.results,
     resignalled |-> ev.results.modificationDetected /\ region.modified]

\* a test that does not read the region's flag
EveryModificationSignal(results, region) ==
    results.modificationDetected

\* the test before recordModification in trackAICodeChanges
ShouldRecordModification(results, region) ==
    results.modificationDetected /\ ~region.modified

\* the for-of loop of trackAICodeChanges from index i on.  The iterator reads
\* the array by index, so the element that follows a spliced one is passed over;
\* an exception of the import check leaves the loop and the function
RECURSIVE TrackRegions(_, _, _, _, _)
TrackRegions(st, i, currentContent, onSave, snapshots) ==
    LET Remove(marked, region, results) ==
            IF results.deletionDetected
            THEN [RecordDeletion(marked, region, results)
                     EXCEPT !.regions = SpliceRegion(@, region.id)]
            ELSE marked
        Mark(seen, region, results) ==
            Remove(IF ShouldRecordModification(results, region)
                   THEN RecordModification([seen EXCEPT !.regions[i].modified = TRUE],
                                           region, results)
                   ELSE seen,
                   region, results)
        Track(region, ev) ==
            IF ev.threw THEN [st EXCEPT !.threw = TRUE]
            ELSE TrackRegions(
                     Mark([st EXCEPT !.evalLog[region.id] = Observe(@, ev, onSave, region),
                                     !.deletionVerdicts =
                                         IF ev.results.deletionDetected
                                         THEN @ \cup {region.id}
                                         ELSE @],
                          region, ev.results),
                     i + 1, currentContent, onSave, snapshots)
        Evaluate(region) ==
            Track(region, EvaluateRegion(currentContent, region.text, onSave, snapshots))
    IN  IF st.threw \/ i > Len(st.regions) THEN st
        ELSE Evaluate(st.regions[i])


(***************************************************************************)
(* Bounds and the texts the editor inserts                                 *)
(***************************************************************************)
\* regions logged in a run
MaxRegions == 2
\* change events in a run
MaxEdits == 2
\* lines of the document
MaxDocLines == 4

ArrowSnippet == "const add = (a, b) => a + b;"
NamedImportSnippet == "import { alpha, beta, gamma } from 'delta'"
PlusImportSnippet == "import x from 'c++'"
FunctionSnippet == "function total(items) {\n  return items.length;\n}"

\* the completions accepted into an empty line
SuggestionTexts == {ArrowSnippet, NamedImportSnippet, PlusImportSnippet, FunctionSnippet}

\* what the user types over selected lines
ReplacementTexts == {"import os"}

\* the document when the extension is activated: one or two empty lines
InitialDocuments == {"", "\n"}

VARIABLES
    docText,            \* document.getText()
    aiGeneratedRegions, \* the active regions of the document
    modifiedAICode,     \* in-memory modification records
    deletedAICode,      \* in-memory deletion records
    documentSnapshots,  \* the snapshot of the document, if any
    modLogFile,         \* the persisted modification log of the document
    suggestionLog,      \* the persisted suggestion log
    trackingEnabled,    \* globalState 'trackingEnabled'
    recentlyOpened,     \* the document is in recentlyOpenedDocuments
    nextId,             \* the next suggestion id
    edits,              \* change events so far
    tick,               \* flips when the interval timer runs a pass (FairSpec)
    evalLog,            \* observer: see Observe
    deletionVerdicts,   \* observer: the ids a verdict signalled deletion for
    fpRegion,           \* SpecFP: the tracked region of codetracker.ts
    fpContent,          \* SpecFP: the document text it is tracked in
    fpTracked,          \* SpecFP: lastTrackingResult was computed on fpContent
    statsData,          \* SpecStats: what the last statistics command computed
    storeEvent,         \* SpecStore: what the last handler did with the log files
    fingerprintCall,    \* SpecLang: the last call of generateCodeFingerprint
    logFiles,           \* SpecStore: what the two log files hold
    docName,            \* SpecFiles: the file name of the document
    trackedFiles,       \* SpecFiles: the files passes ran on and the files with an
                        \* entry in the modification log
    statusBarText,      \* SpecStatus: statusBarItem.text
    restoreTimers       \* SpecStatus: the texts the pending restore timers captured

ledgerVars == << docText, aiGeneratedRegions, modifiedAICode, deletedAICode,
                 documentSnapshots, modLogFile, suggestionLog, trackingEnabled,
                 recentlyOpened, nextId, edits, evalLog, deletionVerdicts >>
fpVars == << fpRegion, fpContent, fpTracked >>
\* the editor around the ledger
hostVars == << docName, trackedFiles, statusBarText, restoreTimers >>

auxVars == << statsData, storeEvent, fingerprintCall, logFiles, hostVars >>
vars == << ledgerVars, tick, fpVars, auxVars >>

\* the changes the editor reports on the document: a completion accepted into
\* an empty line, a line break typed at the end of a line, whole lines deleted,
\* whole lines typed over
Changes(doc) ==
    LET lines == SplitLines(doc)
        n == Len(lines)
        spans == { r \in (0..(n - 1)) \X (0..(n - 1)) :
                     /\ r[1] <= r[2]
                     /\ (r[1] < r[2] \/ Len(lines[r[1] + 1]) > 0) }
    IN  { [startLine |-> l, startChar |-> 0, endLine |-> l, endChar |-> 0, text |-> t] :
            l \in { k \in 0..(n - 1) : lines[k + 1] = "" }, t \in SuggestionTexts }
        \cup
        { [startLine |-> l, startChar |-> Len(lines[l + 1]),
           endLine |-> l, endChar |-> Len(lines[l + 1]), text |-> "\n"] :
            l \in 0..(n - 1) }
        \cup
        { [startLine |-> r[1], startChar |-> 0,
           endLine |-> r[2], endChar |-> Len(lines[r[2] + 1]), text |-> t] :
            r \in spans, t \in {""} \cup ReplacementTexts }

NoFingerprint ==
    [originalText |-> "", lineCount |-> 0, structuralElements |-> << >>,
     identifiers |-> << >>, language |-> "", semanticPatterns |-> << >>]

\* a region handed to trackCodeChanges without a fingerprint
UnfingerprintedRegion(text) ==
    [text |-> text, hasFingerprint |-> FALSE, fingerprint |-> NoFingerprint,
     modified |-> FALSE, deleted |-> FALSE,
     lastTrackingResult |-> NoTrackingResult]

\* the statistics command has not run since the history or the file changed
NoStatistics == [shown |-> "none"]

\* no handler has run on the log files
NoStoreEvent == [kind |-> "none"]
NoFingerprintCall == [called |-> FALSE]

\* the document of the ledger machine is a source file
SourceFileName == "main.ts"

\* no pass has run and the modification log has no entry
NoTrackedFiles == [passes |-> {}, entries |-> {}]

\* initializeStatusBar
IdleText == "$(coden) Coden"

\* both log files hold what the extension wrote
IntactFiles == [modifications |-> "store", suggestions |-> "store"]

\* the extension is active, tracking is enabled by default, nothing is tracked
Init ==
    /\ docText \in InitialDocuments
    /\ aiGeneratedRegions = << >>
    /\ modifiedAICode = << >>
    /\ deletedAICode = << >>
    /\ documentSnapshots = [has |-> FALSE, content |-> ""]
    /\ modLogFile = [modifications |-> << >>, deletions |-> << >>]
    /\ suggestionLog = << >>
    /\ trackingEnabled = TRUE
    /\ recentlyOpened = FALSE
    /\ nextId = 1
    /\ edits = 0
    /\ tick = FALSE
    /\ evalLog = [id \in 1..MaxRegions |-> NotEvaluated]
    /\ deletionVerdicts = {}
    /\ fpRegion = UnfingerprintedRegion("")
    /\ fpContent = ""
    /\ fpTracked = FALSE
    /\ statsData = NoStatistics
    /\ storeEvent = NoStoreEvent
    /\ fingerprintCall = NoFingerprintCall
    /\ logFiles = IntactFiles
    /\ docName = SourceFileName
    /\ trackedFiles = NoTrackedFiles
    /\ statusBarText = IdleText
    /\ restoreTimers = << >>

\* the ledger as the record the handlers' operators work on
Ledger ==
    [regions |-> aiGeneratedRegions,
     modifiedAICode |-> modifiedAICode,
     deletedAICode |-> deletedAICode,
     modifications |-> modLogFile.modifications,
     deletions |-> modLogFile.deletions,
     evalLog |-> evalLog,
     deletionVerdicts |-> deletionVerdicts,
     threw |-> FALSE]

\* handleDocumentChange after the recently-opened test: the change is checked
\* against the regions, then logged as a suggestion if it looks like one
HandleDocumentChange(st, change, id) ==
    LET Log(checked, logged) ==
            [ledger |-> IF logged
                        THEN [checked EXCEPT !.regions = Append(@, NewRegion(id, change))]
                        ELSE checked,
             logged |-> logged]
        Check(checked) ==
            Log(checked, IsProbablyCodenSuggestion(change.text, checked.regions, change))
    IN  Check(CheckForAICodeChanges(st, change))

\* the state after the change event that left the ledger st
ChangeEffect(changed, st, logged, text) ==
    /\ Len(SplitLines(changed)) <= MaxDocLines
    /\ logged => nextId <= MaxRegions
    /\ docText' = changed
    /\ edits' = edits + 1
    /\ evalLog' = [id \in 1..MaxRegions |-> NotEvaluated]
    /\ aiGeneratedRegions' = st.regions
    /\ modifiedAICode' = st.modifiedAICode
    /\ deletedAICode' = st.deletedAICode
    /\ modLogFile' = [modifications |-> st.modifications, deletions |-> st.deletions]
    /\ deletionVerdicts' = st.deletionVerdicts
    /\ nextId' = IF logged THEN nextId + 1 ELSE nextId
    /\ suggestionLog' = IF logged
                        THEN Append(suggestionLog, [id |-> nextId, insertedText |-> text])
                        ELSE suggestionLog

\* the editor changes the document; the onDidChangeTextDocument listener runs
\* unless tracking is disabled or the document was opened within the last second
ChangeEvent(changes) ==
    /\ \E change \in changes :
        LET Listener(out) ==
                ChangeEffect(ApplyChange(docText, change), out.ledger, out.logged,
                             change.text)
        IN  Listener(IF trackingEnabled /\ ~recentlyOpened
                     THEN HandleDocumentChange(Ledger, change, nextId)
                     ELSE [ledger |-> Ledger, logged |-> FALSE])
    /\ UNCHANGED << documentSnapshots, trackingEnabled, recentlyOpened, tick, fpVars, auxVars >>

\* a change event of the editor on the document
DocumentChange ==
    /\ edits < MaxEdits
    /\ ChangeEvent(Changes(docText))

\* trackAICodeChanges: the ledger after the pass; when the pass threw, the log
\* file is not written
TrackAICodeChanges(onSave) ==
    TrackRegions(Ledger, 1, docText, onSave, documentSnapshots)

\* a pass that leaves every region it keeps unflagged
PassClearingFlags(st) ==
    /\ aiGeneratedRegions' =
           [ k \in 1..Len(st.regions) |-> [st.regions[k] EXCEPT !.modified = FALSE] ]
    /\ modifiedAICode' = st.modifiedAICode
    /\ deletedAICode' = st.deletedAICode
    /\ evalLog' = st.evalLog
    /\ deletionVerdicts' = st.deletionVerdicts
    /\ modLogFile' = [modifications |-> st.modifications, deletions |-> st.deletions]

\* a pass that starts from an empty log, not from the file: the file is left
\* with the records of this pass alone
PassFromEmptyLog(st) ==
    LET Fresh(before, after) == SubSeq(after, Len(before) + 1, Len(after))
    IN  /\ aiGeneratedRegions' = st.regions
        /\ modifiedAICode' = st.modifiedAICode
        /\ deletedAICode' = st.deletedAICode
        /\ evalLog' = st.evalLog
        /\ deletionVerdicts' = st.deletionVerdicts
        /\ modLogFile' =
               IF st.threw THEN modLogFile
               ELSE [modifications |-> Fresh(modLogFile.modifications, st.modifications),
                     deletions |-> Fresh(modLogFile.deletions, st.deletions)]

\* the state after the pass that left the ledger st
PassEffect(st) ==
    /\ aiGeneratedRegions' = st.regions
    /\ modifiedAICode' = st.modifiedAICode
    /\ deletedAICode' = st.deletedAICode
    /\ evalLog' = st.evalLog
    /\ deletionVerdicts' = st.deletionVerdicts
    /\ modLogFile' = IF st.threw THEN modLogFile
                     ELSE [modifications |-> st.modifications,
                           deletions |-> st.deletions]

\* the onDidSaveTextDocument listener: a pass with the snapshot, then the
\* snapshot is replaced unless the pass threw
DocumentSave ==
    LET Saved(st) ==
            /\ PassEffect(st)
            /\ documentSnapshots' = IF st.threw THEN documentSnapshots
                                    ELSE [has |-> TRUE, content |-> docText]
    IN  /\ trackingEnabled
        /\ Saved(TrackAICodeChanges(TRUE))
        /\ UNCHANGED << docText, suggestionLog, trackingEnabled, recentlyOpened,
                        nextId, edits, tick, fpVars, auxVars >>

\* an interval callback that does not read the trackingEnabled flag
PeriodicCheckAlways ==
    /\ PassEffect(TrackAICodeChanges(FALSE))
    /\ UNCHANGED << docText, documentSnapshots, suggestionLog, trackingEnabled,
                    recentlyOpened, nextId, edits, fpVars, auxVars >>

\* the 30-second interval: a pass without the snapshot
PeriodicCheck ==
    /\ trackingEnabled
    /\ PassEffect(TrackAICodeChanges(FALSE))
    /\ UNCHANGED << docText, documentSnapshots, suggestionLog, trackingEnabled,
                    recentlyOpened, nextId, edits, fpVars, auxVars >>

\* handleDocumentOpen
DocumentOpen ==
    /\ recentlyOpened' = TRUE
    /\ documentSnapshots' = [has |-> TRUE, content |-> docText]
    /\ UNCHANGED << docText, aiGeneratedRegions, modifiedAICode, deletedAICode,
                    modLogFile, suggestionLog, trackingEnabled, nextId, edits, tick,
                    evalLog, deletionVerdicts, fpVars, auxVars >>

\* the one-second timer of handleDocumentOpen
OpenTimerExpires ==
    /\ recentlyOpened
    /\ recentlyOpened' = FALSE
    /\ UNCHANGED << docText, aiGeneratedRegions, modifiedAICode, deletedAICode,
                    documentSnapshots, modLogFile, suggestionLog, trackingEnabled,
                    nextId, edits, tick, evalLog, deletionVerdicts, fpVars, auxVars >>

\* the coden.toggleTracking command
ToggleTracking ==
    /\ trackingEnabled' = ~trackingEnabled
    /\ UNCHANGED << docText, aiGeneratedRegions, modifiedAICode, deletedAICode,
                    documentSnapshots, modLogFile, suggestionLog, recentlyOpened,
                    nextId, edits, tick, evalLog, deletionVerdicts, fpVars, auxVars >>

Next ==
    \/ DocumentChange
    \/ DocumentSave
    \/ PeriodicCheck /\ UNCHANGED tick
    \/ DocumentOpen
    \/ OpenTimerExpires
    \/ ToggleTracking

Spec == Init /\ [][Next]_vars

\* the interval timer keeps firing: every firing runs a pass while tracking is
\* enabled
PeriodicTick == tick' = ~tick /\ PeriodicCheck

FairNext ==
    \/ DocumentChange
    \/ DocumentSave
    \/ PeriodicTick
    \/ DocumentOpen
    \/ OpenTimerExpires
    \/ ToggleTracking

\* weak fairness of the interval timer's pass.  PeriodicTick is enabled exactly
\* when tracking is enabled (the pass itself has no guard and the tick always
\* flips), so WF_vars(PeriodicTick) is written with that condition in place of
\* ENABLED
PeriodicTickFairness ==
    \/ []<>(~trackingEnabled)
    \/ []<><<PeriodicTick>>_vars

\* the one-second timer of handleDocumentOpen and the interval timer both fire
FairSpec ==
    /\ Init /\ [][FairNext]_vars
    /\ WF_vars(OpenTimerExpires)
    /\ PeriodicTickFairness

(***************************************************************************)
(* SpecSession: a session in which two completions are accepted, one after *)
(* the other, and then lines are deleted; saves, the interval timer, the    *)
(* open handler and the toggle command run in between as in FairSpec.       *)
(***************************************************************************)
\* the change of the session's next change event: the first completion into
\* line 0, the other one into line 1, then line 0, line 1 or both deleted
SessionChanges(doc, done) ==
    LET lines == SplitLines(doc)
        Insert(l, t) ==
            [startLine |-> l, startChar |-> 0, endLine |-> l, endChar |-> 0, text |-> t]
        Delete(l1, l2) ==
            [startLine |-> l1, startChar |-> 0,
             endLine |-> l2, endChar |-> Len(lines[l2 + 1]), text |-> ""]
    IN  CASE done = 0 -> { Insert(0, t) : t \in {PlusImportSnippet, ArrowSnippet} }
          [] done = 1 -> { Insert(1, t) :
                             t \in {PlusImportSnippet, ArrowSnippet} \ {lines[1]} }
          [] done = 2 -> { Delete(0, 0), Delete(1, 1), Delete(0, 1) }
          [] OTHER -> {}

\* the document has two empty lines
InitSession == Init /\ docText = "\n"

\* the next change event of the session
SessionChange ==
    /\ SessionChanges(docText, edits) # {}
    /\ ChangeEvent(SessionChanges(docText, edits))

NextSession ==
    \/ SessionChange
    \/ DocumentSave
    \/ PeriodicTick
    \/ DocumentOpen
    \/ OpenTimerExpires
    \/ ToggleTracking

SpecSession == InitSession /\ [][NextSession]_vars

(***************************************************************************)
(* SpecFP: one region tracked by trackCodeChanges in a document the editor *)
(* changes.  The fragments cover one line, two to nine lines and ten lines *)
(* or more, each with no, one or two, and three structural elements.       *)
(***************************************************************************)
AddFragment == "const add = (x, y) => x + y;"
ReturnFragment == "return total;"
ClassLineFragment == "class Abc{let b=1;let c=2}"
WordsFragment == "abc\nxyz"
ClassFragment == "class Abc {\n  run = () => 1\nlet cde = 2\n}"
SparseFragment == "abc\n\n\n\n\n\n\n\n\nxyz"
LongFunctionFragment == FunctionSnippet \o "\n\n\n\n\n\n\n"
LongClassFragment == ClassFragment \o "\n\n\n\n\n\n"

FPFragments ==
    {AddFragment, ReturnFragment, ClassLineFragment, WordsFragment, FunctionSnippet,
     ClassFragment, SparseFragment, LongFunctionFragment, LongClassFragment}

\* the documents: empty, a fragment alone, a fragment between other lines, and
\* fragments after an edit
FPDocuments ==
    {""} \cup FPFragments
    \cup { "// head\n" \o f \o "\n// tail" :
             f \in {AddFragment, FunctionSnippet, LongClassFragment} }
    \cup {"const add = (x, y) => x - y;",
          "function total(items) {\n  return items.size;\n}",
          "let cde = 2",
          "abc"}

\* the ledger is idle in SpecFP
InitFP ==
    /\ docText = ""
    /\ aiGeneratedRegions = << >>
    /\ modifiedAICode = << >>
    /\ deletedAICode = << >>
    /\ documentSnapshots = [has |-> FALSE, content |-> ""]
    /\ modLogFile = [modifications |-> << >>, deletions |-> << >>]
    /\ suggestionLog = << >>
    /\ trackingEnabled = TRUE
    /\ recentlyOpened = FALSE
    /\ nextId = 1
    /\ edits = 0
    /\ tick = FALSE
    /\ evalLog = [id \in 1..MaxRegions |-> NotEvaluated]
    /\ deletionVerdicts = {}
    /\ fpRegion \in { UnfingerprintedRegion(f) : f \in FPFragments }
    /\ fpContent \in FPDocuments
    /\ fpTracked = FALSE
    /\ statsData = NoStatistics
    /\ storeEvent = NoStoreEvent
    /\ fingerprintCall = NoFingerprintCall
    /\ logFiles = IntactFiles
    /\ docName = SourceFileName
    /\ trackedFiles = NoTrackedFiles
    /\ statusBarText = IdleText
    /\ restoreTimers = << >>

\* a caller creates the tracked region of a fragment
CreateRegion ==
    /\ \E text \in FPFragments : fpRegion' = CreateTrackedRegion(text)
    /\ fpTracked' = FALSE
    /\ UNCHANGED << ledgerVars, tick, fpContent, auxVars >>

\* a caller tracks the region in the document
TrackRegion ==
    /\ fpRegion' = TrackCodeChanges(fpRegion, fpContent)
    /\ fpTracked' = TRUE
    /\ UNCHANGED << ledgerVars, tick, fpContent, auxVars >>

\* the editor changes the document
EditDocument ==
    /\ \E content \in FPDocuments \ {fpContent} : fpContent' = content
    /\ fpTracked' = FALSE
    /\ UNCHANGED << ledgerVars, tick, fpRegion, auxVars >>

NextFP ==
    \/ CreateRegion
    \/ TrackRegion
    \/ EditDocument

SpecFP == InitFP /\ [][NextFP]_vars


(***************************************************************************)
(* SpecStats: the statistics command on a persisted history.  The history  *)
(* of one file is whatever earlier handlers and sessions wrote; the        *)
(* command reconciles it, validates it against the file and counts.        *)
(* Confidence scores are in tenths.                                        *)
(***************************************************************************)
\* Date.now() of the command: later than every recorded timestamp
Now == 40000
\* timeThreshold of reconcileTrackingData, in milliseconds
TimeThreshold == 10000
StatementVerifiedConfidence == 9
StatementExistsConfidence == 9
ContentExistsConfidence == 8
IdentifiersFoundConfidence == 7
\* a short statement's deletion below this confidence is not kept
LowDeletionConfidence == 7
\* fragments shorter than this are not validated
MinValidatedLength == 5
\* identifiers shorter than or of this length are not counted as found
ShortIdentifierLength == 3

\* the modification record the validations push for a deletion record
ValidatedModification(del, confidence, modType) ==
    [id |-> del.id, modificationTimestamp |-> Now, originalText |-> del.originalText,
     confidenceScore |-> confidence, modType |-> modType, finalStatus |-> ""]

\* modifications.push(...) unless modifications.some(mod => mod.id === id)
PushIfAbsent(modifications, record) ==
    IF HasId(modifications, record.id) THEN modifications
    ELSE Append(modifications, record)

\* validateShortStatementReconciliation: the filter over the deletions from
\* index k on; st.deletions collects the records the filter keeps
RECURSIVE ShortStatementFilter(_, _, _, _)
ShortStatementFilter(st, deletions, k, currentContent) ==
    IF k > Len(deletions) THEN st
    ELSE LET Step(del) ==
                 IF /\ del.originalText # ""
                    /\ Len(Trim(del.originalText)) < ShortStatementLimit
                    /\ Len(SplitLines(del.originalText)) = 1
                    /\ StatementExistsInContent(del.originalText, currentContent)
                 THEN [st EXCEPT !.modifications =
                           PushIfAbsent(@, ValidatedModification(
                               del, StatementVerifiedConfidence,
                               "statement_verified_exists"))]
                 ELSE [st EXCEPT !.deletions = Append(@, del)]
         IN  ShortStatementFilter(Step(deletions[k]), deletions, k + 1, currentContent)

\* validateShortStatementReconciliation
ValidateShortStatementReconciliation(fileData, currentContent) ==
    ShortStatementFilter([fileData EXCEPT !.deletions = << >>],
                         fileData.deletions, 1, currentContent)

\* modifications.findIndex(mod => mod.id === id), 0 for -1
FindIndex(modifications, id) ==
    IF HasId(modifications, id)
    THEN CHOOSE k \in 1..Len(modifications) :
             /\ modifications[k].id = id
             /\ \A j \in 1..(k - 1) : modifications[j].id # id
    ELSE 0

\* a filter that keeps every deletion record
KeepAllDeletions(st, deletions, k) == [st EXCEPT !.deletions = deletions]

\* the deletions filter of reconcileTrackingData from index k on; st holds the
\* modifications, the deletions kept so far and modifiedIds
RECURSIVE DoubleTrackingFilter(_, _, _)
DoubleTrackingFilter(st, deletions, k) ==
    IF k > Len(deletions) THEN st
    ELSE LET Found(del, modIndex, mod) ==
                 LET wasModifiedThenDeleted ==
                         mod.modificationTimestamp < del.deletionTimestamp
                     isQuickChange ==
                         del.deletionTimestamp - mod.modificationTimestamp < TimeThreshold
                     isShortBlock ==
                         mod.originalText # "" /\ IsShortStatement(mod.originalText)
                     marked ==
                         [st EXCEPT !.modifications[modIndex].finalStatus =
                              IF @ = "" THEN "deleted" ELSE @]
                 IN  IF isShortBlock /\ mod.confidenceScore > del.confidenceScore
                     THEN marked
                     ELSE IF wasModifiedThenDeleted /\ isQuickChange /\ ~isShortBlock
                          THEN [marked EXCEPT !.modifiedIds = @ \ {del.id}]
                          ELSE marked
             Step(del, modIndex) ==
                 IF modIndex # 0
                 THEN Found(del, modIndex, st.modifications[modIndex])
                 ELSE [st EXCEPT !.deletions = Append(@, del)]
             Filter(del) == Step(del, FindIndex(st.modifications, del.id))
         IN  DoubleTrackingFilter(Filter(deletions[k]), deletions, k + 1)

\* mods.filter(mod => modifiedIds.has(mod.id))
RECURSIVE WithIdIn(_, _)
WithIdIn(modifications, ids) ==
    IF Len(modifications) = 0 THEN << >>
    ELSE (IF Head(modifications).id \in ids THEN << Head(modifications) >> ELSE << >>)
         \o WithIdIn(Tail(modifications), ids)

\* reconcileTrackingData on the data of one file that has both lists
ReconcileTrackingData(fileData, currentContent) ==
    LET Finish(st) ==
            [modifications |-> st.modifications,
             deletions |-> st.deletions,
             filteredModifications |-> WithIdIn(st.modifications, st.modifiedIds)]
        Reconcile(validated) ==
            Finish(DoubleTrackingFilter(
                [modifications |-> validated.modifications,
                 deletions |-> << >>,
                 modifiedIds |-> { validated.modifications[k].id :
                                     k \in 1..Len(validated.modifications) }],
                validated.deletions, 1))
    IN  Reconcile(ValidateShortStatementReconciliation(fileData, currentContent))

\* the deletions filter of performFinalValidation from index k on; st holds the
\* modifications, the deletions the filter keeps and the flag changes
RECURSIVE ValidationFilter(_, _, _, _)
ValidationFilter(st, deletions, k, currentContent) ==
    IF k > Len(deletions) THEN st
    ELSE LET Keep(del) == [st EXCEPT !.deletions = Append(@, del)]
             \* the record leaves the deletions; a modification is pushed, and
             \* changes set, only when the id has no modification record
             Move(del, confidence, modType) ==
                 IF HasId(st.modifications, del.id) THEN st
                 ELSE [st EXCEPT !.modifications =
                                     Append(@, ValidatedModification(del, confidence,
                                                                     modType)),
                                 !.changes = TRUE]
             Identifiers(del, identifiers) ==
                 LET found == Cardinality(
                         { i \in 1..Len(identifiers) :
                             /\ Includes(currentContent, identifiers[i])
                             /\ Len(identifiers[i]) > ShortIdentifierLength })
                     \* found >= Math.max(2, identifiers.length * 0.6)
                     significantMatch ==
                         found >= 2 /\ 10 * found >= 6 * Len(identifiers)
                 IN  IF Len(identifiers) >= 2 /\ significantMatch
                     THEN Move(del, IdentifiersFoundConfidence, "identifiers_found")
                     ELSE Keep(del)
             Standard(del) ==
                 IF /\ Len(del.originalText) < ShortStatementLimit
                    /\ Includes(currentContent, Trim(del.originalText))
                 THEN Move(del, ContentExistsConfidence, "content_exists")
                 ELSE Identifiers(del, ExtractSignificantTokens(del.originalText))
             Step(del) ==
                 IF Len(del.originalText) < MinValidatedLength THEN Keep(del)
                 ELSE IF IsShortStatement(del.originalText)
                      THEN IF StatementExistsInContent(del.originalText, currentContent)
                           THEN Move(del, StatementExistsConfidence, "statement_exists")
                           ELSE IF del.confidenceScore < LowDeletionConfidence
                                THEN st
                                ELSE Standard(del)
                      ELSE Standard(del)
         IN  ValidationFilter(Step(deletions[k]), deletions, k + 1, currentContent)

\* performFinalValidation on the data of one file whose file exists: the
\* filtered list replaces the deletions only when changes is set and a record
\* left the list
PerformFinalValidation(fileData, currentContent) ==
    LET Update(st) ==
            [fileData EXCEPT
                !.modifications = st.modifications,
                !.deletions = IF st.changes /\ Len(st.deletions) # Len(fileData.deletions)
                              THEN st.deletions
                              ELSE fileData.deletions]
    IN  Update(ValidationFilter([modifications |-> fileData.modifications,
                                 deletions |-> << >>, changes |-> FALSE],
                                fileData.deletions, 1, currentContent))

\* calculateStatistics: the ids of the logged suggestions counted as modified
\* and as deleted
CalculateStatistics(logData, modData) ==
    [modified |-> { logData[k].id : k \in { j \in 1..Len(logData) :
                        HasId(modData.modifications, logData[j].id) } },
     deleted |-> { logData[k].id : k \in { j \in 1..Len(logData) :
                        HasId(modData.deletions, logData[j].id) } }]

\* records of one list of the history
MaxRecords == 2

\* the fragments of the two logged suggestions: a short statement and a
\* function of three lines
StatementText == "let count = 0;"
StatsTexts == << StatementText, FunctionSnippet >>

\* the file on disk: empty, with the statement, with the function edited, with
\* both
EditedFunction == "function total(list) {\n  return list.length;\n}"
StatsContents ==
    {"", StatementText, EditedFunction, StatementText \o "\n" \o EditedFunction}

\* the modification records and the deletion records a history may hold
ModificationRecords ==
    { [id |-> id, modificationTimestamp |-> t, originalText |-> StatsTexts[id],
       confidenceScore |-> 7, modType |-> "inline_edit", finalStatus |-> ""] :
        id \in 1..2, t \in {1000, 30000} }
DeletionRecords ==
    { [id |-> id, deletionTimestamp |-> t, originalText |-> StatsTexts[id],
       confidenceScore |-> c] :
        id \in 1..2, t \in {5000, 20000}, c \in {5, 8} }

\* both suggestions are in the suggestion log; the history is empty
InitStats ==
    /\ docText \in StatsContents
    /\ aiGeneratedRegions = << >>
    /\ modifiedAICode = << >>
    /\ deletedAICode = << >>
    /\ documentSnapshots = [has |-> FALSE, content |-> ""]
    /\ modLogFile = [modifications |-> << >>, deletions |-> << >>]
    /\ suggestionLog = [ id \in 1..2 |-> [id |-> id, insertedText |-> StatsTexts[id]] ]
    /\ trackingEnabled = TRUE
    /\ recentlyOpened = FALSE
    /\ nextId = 3
    /\ edits = 0
    /\ tick = FALSE
    /\ evalLog = [id \in 1..MaxRegions |-> NotEvaluated]
    /\ deletionVerdicts = {}
    /\ fpRegion = UnfingerprintedRegion("")
    /\ fpContent = ""
    /\ fpTracked = FALSE
    /\ statsData = NoStatistics
    /\ storeEvent = NoStoreEvent
    /\ fingerprintCall = NoFingerprintCall
    /\ logFiles = IntactFiles
    /\ docName = SourceFileName
    /\ trackedFiles = NoTrackedFiles
    /\ statusBarText = IdleText
    /\ restoreTimers = << >>

statsFrame ==
    << aiGeneratedRegions, modifiedAICode, deletedAICode, documentSnapshots,
       suggestionLog, trackingEnabled, recentlyOpened, nextId, edits, tick, evalLog,
       deletionVerdicts, fpVars, storeEvent, fingerprintCall,
       logFiles, hostVars >>

\* a handler has written a modification record to the log
ModificationWritten ==
    /\ Len(modLogFile.modifications) < MaxRecords
    /\ \E record \in ModificationRecords :
           modLogFile' = [modLogFile EXCEPT !.modifications = Append(@, record)]
    /\ statsData' = NoStatistics
    /\ UNCHANGED << docText, statsFrame >>

\* a handler has written a deletion record to the log
DeletionWritten ==
    /\ Len(modLogFile.deletions) < MaxRecords
    /\ \E record \in DeletionRecords :
           modLogFile' = [modLogFile EXCEPT !.deletions = Append(@, record)]
    /\ statsData' = NoStatistics
    /\ UNCHANGED << docText, statsFrame >>

\* the file is saved with another content
FileSaved ==
    /\ \E content \in StatsContents \ {docText} : docText' = content
    /\ statsData' = NoStatistics
    /\ UNCHANGED << modLogFile, statsFrame >>

\* showSuggestionStats: the history is reconciled, then validated, then counted
ShowSuggestionStats ==
    LET Count(reconciled, validated) ==
            [shown |-> "stats", reconciled |-> reconciled, validated |-> validated,
             counts |-> CalculateStatistics(suggestionLog, validated)]
        Validate(reconciled) ==
            Count(reconciled, PerformFinalValidation(reconciled, docText))
    IN  /\ statsData' = Validate(ReconcileTrackingData(modLogFile, docText))
        /\ UNCHANGED << docText, modLogFile, statsFrame >>

\* a final validation that writes its result to the log file
FinalValidationWritten ==
    LET Written(validated) ==
            /\ statsData' = [shown |-> "validation", validated |-> validated]
            /\ modLogFile' = [modifications |-> validated.modifications,
                              deletions |-> validated.deletions]
    IN  /\ Written(PerformFinalValidation(modLogFile, docText))
        /\ UNCHANGED << docText, statsFrame >>

\* performFinalValidation on the history as loaded, as at the end of a pass
FinalValidation ==
    /\ statsData' = [shown |-> "validation",
                     validated |-> PerformFinalValidation(modLogFile, docText)]
    /\ UNCHANGED << docText, modLogFile, statsFrame >>

NextStats ==
    \/ ModificationWritten
    \/ DeletionWritten
    \/ FileSaved
    \/ ShowSuggestionStats
    \/ FinalValidation

SpecStats == InitStats /\ [][NextStats]_vars


(***************************************************************************)
(* SpecStore: the handlers on log files that something else has damaged.   *)
(* logFiles names what each file holds; while a file holds no store, the   *)
(* variable of its content is the empty store.  Two completions are        *)
(* accepted, then a line is deleted or typed over; saves and interval      *)
(* passes run in between.                                                  *)
(***************************************************************************)
\* what a damaged modification log holds: text JSON.parse rejects, a file
\* readFileSync fails on, the JSON text null, the JSON text []
DamagedModificationLogs == {"unparsable", "unreadable", "null", "array"}

\* what a damaged suggestion log holds: the same, with the JSON text {}
DamagedSuggestionLogs == {"unparsable", "unreadable", "null", "object"}

EmptyStore == [modifications |-> << >>, deletions |-> << >>]

\* loadModificationData: the store, {} after a caught failure of the read or of
\* JSON.parse, or the value that JSON.parse returned
LoadModificationData(held) ==
    IF held \in {"store", "unparsable", "unreadable"} THEN "object" ELSE held

\* what the file holds after JSON.stringify and writeFileSync: an array is
\* written without its named property; the write to a file that cannot be read
\* succeeds (ok) or throws, which is caught
SavedAs(held, ok) ==
    IF held \in {"array", "object"} THEN held
    ELSE IF held = "unreadable" /\ ~ok THEN held
    ELSE "store"

\* saveToLogFile: logData stays [] after a caught failure; logData.push is
\* outside the try and throws on a value that is no array
SaveToLogFileThrows(held) == held \in {"null", "object"}

StoreChanges(doc, done) ==
    LET lines == SplitLines(doc)
        Insert(l, t) ==
            [startLine |-> l, startChar |-> 0, endLine |-> l, endChar |-> 0, text |-> t]
        Over(l, t) ==
            [startLine |-> l, startChar |-> 0,
             endLine |-> l, endChar |-> Len(lines[l + 1]), text |-> t]
    IN  CASE done = 0 -> { Insert(0, ArrowSnippet) }
          [] done = 1 -> { Insert(1, NamedImportSnippet) }
          [] done = 2 -> { Over(0, ""), Over(1, ""), Over(0, "let sum = 0;") }
          [] OTHER -> {}

InitStore == Init /\ docText = "\n"

\* the onDidChangeTextDocument listener: handleDocumentChange with
\* checkForAICodeChanges, updateModificationTracking, logSuggestion and
\* saveToLogFile on the files as they are
StoreChange ==
    \E change \in StoreChanges(docText, edits), okM \in BOOLEAN, okS \in BOOLEAN :
        LET heldM == logFiles.modifications
            heldS == logFiles.suggestions
            checks == Len(aiGeneratedRegions) > 0
            \* modificationData[relPath] on null
            trackingThrew == checks /\ LoadModificationData(heldM) = "null"
            Listener(out) ==
                LET hasChanges ==
                        /\ checks
                        /\ ~trackingThrew
                        /\ \/ out.ledger.modifications # modLogFile.modifications
                           \/ out.ledger.deletions # modLogFile.deletions
                    savedM == IF hasChanges THEN SavedAs(heldM, okM) ELSE heldM
                    loggingThrew == out.logged /\ SaveToLogFileThrows(heldS)
                    savedS == IF out.logged /\ ~loggingThrew
                              THEN SavedAs(heldS, okS) ELSE heldS
                IN  /\ out.logged => nextId <= MaxRegions
                    /\ docText' = ApplyChange(docText, change)
                    /\ edits' = edits + 1
                    /\ evalLog' = [id \in 1..MaxRegions |-> NotEvaluated]
                    /\ aiGeneratedRegions' = out.ledger.regions
                    /\ modifiedAICode' = out.ledger.modifiedAICode
                    /\ deletedAICode' = out.ledger.deletedAICode
                    /\ deletionVerdicts' = out.ledger.deletionVerdicts
                    /\ modLogFile' = IF hasChanges /\ savedM = "store"
                                     THEN [modifications |-> out.ledger.modifications,
                                           deletions |-> out.ledger.deletions]
                                     ELSE modLogFile
                    /\ nextId' = IF out.logged THEN nextId + 1 ELSE nextId
                    /\ suggestionLog' =
                           IF out.logged /\ ~loggingThrew /\ savedS = "store"
                           THEN Append(suggestionLog,
                                       [id |-> nextId, insertedText |-> change.text])
                           ELSE suggestionLog
                    /\ logFiles' = [modifications |-> savedM, suggestions |-> savedS]
                    /\ storeEvent' =
                           [kind |-> "change",
                            damaged |-> \/ checks /\ heldM # "store"
                                        \/ out.logged /\ heldS # "store",
                            threw |-> trackingThrew \/ loggingThrew,
                            modifications |->
                                IF hasChanges
                                THEN IdsOf(out.ledger.modifications)
                                         \ IdsOf(modLogFile.modifications)
                                ELSE {},
                            deletions |->
                                IF hasChanges
                                THEN IdsOf(out.ledger.deletions)
                                         \ IdsOf(modLogFile.deletions)
                                ELSE {},
                            suggestions |-> IF out.logged THEN {nextId} ELSE {}]
        IN  /\ trackingEnabled
            /\ ~recentlyOpened
            /\ Listener(IF trackingThrew
                        THEN [ledger |-> [CheckRegions(Ledger, 1, change)
                                              EXCEPT !.regions = NotDeleted(@)],
                              logged |-> FALSE]
                        ELSE HandleDocumentChange(Ledger, change, nextId))
            /\ UNCHANGED << documentSnapshots, trackingEnabled, recentlyOpened, tick,
                            fpVars, statsData, fingerprintCall, hostVars >>

\* trackAICodeChanges on the modification log as it is; the save listener
\* replaces the snapshot after a pass that did not throw
StorePass(onSave) ==
    LET heldM == logFiles.modifications
        loadThrew == LoadModificationData(heldM) = "null"
        Pass(st, ok) ==
            LET savedM == IF st.threw THEN heldM ELSE SavedAs(heldM, ok)
                written == ~st.threw /\ savedM = "store"
            IN  /\ aiGeneratedRegions' = st.regions
                /\ modifiedAICode' = st.modifiedAICode
                /\ deletedAICode' = st.deletedAICode
                /\ evalLog' = st.evalLog
                /\ deletionVerdicts' = st.deletionVerdicts
                /\ modLogFile' = IF written
                                 THEN [modifications |-> st.modifications,
                                       deletions |-> st.deletions]
                                 ELSE modLogFile
                /\ logFiles' = [logFiles EXCEPT !.modifications = savedM]
                /\ documentSnapshots' = IF onSave /\ ~st.threw
                                        THEN [has |-> TRUE, content |-> docText]
                                        ELSE documentSnapshots
                /\ storeEvent' =
                       [kind |-> "pass",
                        damaged |-> heldM # "store",
                        threw |-> st.threw,
                        modifications |-> IdsOf(st.modifications)
                                              \ IdsOf(modLogFile.modifications),
                        deletions |-> IdsOf(st.deletions) \ IdsOf(modLogFile.deletions),
                        suggestions |-> {}]
    IN  /\ IF loadThrew
           THEN /\ storeEvent' = [kind |-> "pass", damaged |-> TRUE, threw |-> TRUE,
                                  modifications |-> {}, deletions |-> {},
                                  suggestions |-> {}]
                /\ UNCHANGED << aiGeneratedRegions, modifiedAICode, deletedAICode,
                                evalLog, deletionVerdicts, modLogFile, logFiles,
                                documentSnapshots >>
           ELSE \E ok \in BOOLEAN : Pass(TrackAICodeChanges(onSave), ok)
        /\ UNCHANGED << docText, suggestionLog, trackingEnabled, recentlyOpened,
                        nextId, edits, tick, fpVars, statsData, fingerprintCall, hostVars >>

\* the onDidSaveTextDocument listener
StoreSave ==
    /\ trackingEnabled
    /\ StorePass(TRUE)

\* the 30-second interval
StorePeriodicCheck ==
    /\ trackingEnabled
    /\ StorePass(FALSE)

\* the modification log is damaged behind the extension's back
ModificationLogDamaged ==
    /\ \E held \in DamagedModificationLogs \ {logFiles.modifications} :
           logFiles' = [logFiles EXCEPT !.modifications = held]
    /\ modLogFile' = EmptyStore
    /\ storeEvent' = [kind |-> "damaged"]
    /\ UNCHANGED << docText, aiGeneratedRegions, modifiedAICode, deletedAICode,
                    documentSnapshots, suggestionLog, trackingEnabled, recentlyOpened,
                    nextId, edits, tick, evalLog, deletionVerdicts, fpVars, statsData,
                    fingerprintCall, hostVars >>

\* the suggestion log is damaged behind the extension's back
SuggestionLogDamaged ==
    /\ \E held \in DamagedSuggestionLogs \ {logFiles.suggestions} :
           logFiles' = [logFiles EXCEPT !.suggestions = held]
    /\ suggestionLog' = << >>
    /\ storeEvent' = [kind |-> "damaged"]
    /\ UNCHANGED << docText, aiGeneratedRegions, modifiedAICode, deletedAICode,
                    documentSnapshots, modLogFile, trackingEnabled, recentlyOpened,
                    nextId, edits, tick, evalLog, deletionVerdicts, fpVars, statsData,
                    fingerprintCall, hostVars >>

NextStore ==
    \/ StoreChange
    \/ StoreSave
    \/ StorePeriodicCheck
    \/ ModificationLogDamaged
    \/ SuggestionLogDamaged

SpecStore == InitStore /\ [][NextStore]_vars


(***************************************************************************)
(* SpecFiles: the listeners on a document of any file name, the log files  *)
(* of the extension among them.  The document is the one the active editor *)
(* shows.                                                                  *)
(***************************************************************************)
LogFileName == "coden.json"
ModLogFileName == "coden_mod.json"

\* shouldSkipDocument, on the file name that the uri ends with
ShouldSkipDocument(name) ==
    \/ name = LogFileName
    \/ name = ModLogFileName
    \/ Includes(name, "GitHub.copilot")
    \/ Includes(name, "output:")
    \/ Includes(name, "extension-output")

DocumentNames == {SourceFileName, LogFileName, ModLogFileName, "output:tasks"}

InitFiles ==
    /\ docText = "\n"
    /\ aiGeneratedRegions = << >>
    /\ modifiedAICode = << >>
    /\ deletedAICode = << >>
    /\ documentSnapshots = [has |-> FALSE, content |-> ""]
    /\ modLogFile = EmptyStore
    /\ suggestionLog = << >>
    /\ trackingEnabled = TRUE
    /\ recentlyOpened = FALSE
    /\ nextId = 1
    /\ edits = 0
    /\ tick = FALSE
    /\ evalLog = [id \in 1..MaxRegions |-> NotEvaluated]
    /\ deletionVerdicts = {}
    /\ fpRegion = UnfingerprintedRegion("")
    /\ fpContent = ""
    /\ fpTracked = FALSE
    /\ statsData = NoStatistics
    /\ storeEvent = NoStoreEvent
    /\ fingerprintCall = NoFingerprintCall
    /\ logFiles = IntactFiles
    /\ docName \in DocumentNames
    /\ trackedFiles = NoTrackedFiles
    /\ statusBarText = IdleText
    /\ restoreTimers = << >>

\* trackAICodeChanges ran on the document; unless it threw it created the
\* entry of the file in the modification data and saved it
AfterPass(st) ==
    [passes |-> trackedFiles.passes \cup {docName},
     entries |-> IF st.threw THEN trackedFiles.entries
                 ELSE trackedFiles.entries \cup {docName}]

\* the onDidChangeTextDocument listener with its two tests
FilesChange ==
    /\ \E change \in StoreChanges(docText, edits) :
        LET Listener(out) ==
                /\ ChangeEffect(ApplyChange(docText, change), out.ledger, out.logged,
                                change.text)
                \* updateModificationTracking saves when it added a record
                /\ trackedFiles' =
                       [trackedFiles EXCEPT !.entries =
                           IF \/ out.ledger.modifications # modLogFile.modifications
                              \/ out.ledger.deletions # modLogFile.deletions
                           THEN @ \cup {docName} ELSE @]
        IN  Listener(IF /\ trackingEnabled
                        /\ ~ShouldSkipDocument(docName)
                        /\ ~recentlyOpened
                     THEN HandleDocumentChange(Ledger, change, nextId)
                     ELSE [ledger |-> Ledger, logged |-> FALSE])
    /\ UNCHANGED << documentSnapshots, trackingEnabled, recentlyOpened, tick, fpVars,
                    statsData, storeEvent, fingerprintCall, logFiles, docName,
                    statusBarText, restoreTimers >>

\* the onDidSaveTextDocument listener with its two tests
FilesSave ==
    LET Saved(st) ==
            /\ PassEffect(st)
            /\ documentSnapshots' = IF st.threw THEN documentSnapshots
                                    ELSE [has |-> TRUE, content |-> docText]
            /\ trackedFiles' = AfterPass(st)
    IN  /\ trackingEnabled
        /\ ~ShouldSkipDocument(docName)
        /\ Saved(TrackAICodeChanges(TRUE))
        /\ UNCHANGED << docText, suggestionLog, trackingEnabled, recentlyOpened,
                        nextId, edits, tick, fpVars, statsData, storeEvent,
                        fingerprintCall, logFiles, docName, statusBarText,
                        restoreTimers >>

\* the 30-second interval on the document of the active editor
FilesPeriodicCheck ==
    LET Checked(st) ==
            /\ PassEffect(st)
            /\ trackedFiles' = AfterPass(st)
    IN  /\ trackingEnabled
        /\ Checked(TrackAICodeChanges(FALSE))
        /\ UNCHANGED << docText, documentSnapshots, suggestionLog, trackingEnabled,
                        recentlyOpened, nextId, edits, tick, fpVars, statsData,
                        storeEvent, fingerprintCall, logFiles, docName, statusBarText,
                        restoreTimers >>

NextFiles ==
    \/ FilesChange
    \/ FilesSave
    \/ FilesPeriodicCheck
    \/ ToggleTracking

SpecFiles == InitFiles /\ [][NextFiles]_vars

(***************************************************************************)
(* The status bar item.  saveToLogFile, after it has written the log,      *)
(* keeps the item's text, shows "Logged" and starts a 2-second timer that  *)
(* puts the kept text back.  The timers have one delay, so they fire in    *)
(* the order in which they were started.                                   *)
(***************************************************************************)
LoggedText == "$(coden) Logged"

InitStatus == Init /\ docText = "\n"

\* the status bar part of saveToLogFile: originalText is kept by the timer
ShowLogged ==
    /\ restoreTimers' = Append(restoreTimers, statusBarText)
    /\ statusBarText' = LoggedText

\* a change event of the editor; a change that is logged as a suggestion goes
\* through saveToLogFile
StatusChange ==
    /\ edits < MaxEdits
    /\ \E change \in Changes(docText) :
        LET Listener(out) ==
                /\ ChangeEffect(ApplyChange(docText, change), out.ledger, out.logged,
                                change.text)
                /\ IF out.logged THEN ShowLogged
                   ELSE UNCHANGED << statusBarText, restoreTimers >>
        IN  Listener(IF trackingEnabled /\ ~recentlyOpened
                     THEN HandleDocumentChange(Ledger, change, nextId)
                     ELSE [ledger |-> Ledger, logged |-> FALSE])
    /\ UNCHANGED << documentSnapshots, trackingEnabled, recentlyOpened, tick, fpVars,
                    statsData, storeEvent, fingerprintCall, logFiles, docName,
                    trackedFiles >>

\* the callback of the oldest pending setTimeout of saveToLogFile
RestoreTimerFires ==
    /\ restoreTimers # << >>
    /\ statusBarText' = Head(restoreTimers)
    /\ restoreTimers' = Tail(restoreTimers)
    /\ UNCHANGED << ledgerVars, tick, fpVars, statsData, storeEvent, fingerprintCall,
                    logFiles, docName, trackedFiles >>

NextStatus ==
    \/ StatusChange
    \/ RestoreTimerFires

SpecStatus == InitStatus /\ [][NextStatus]_vars


(***************************************************************************)
(* SpecLang: generateCodeFingerprint called with the language tag of the   *)
(* document.  importRegexes is an object literal: a lookup by the tag      *)
(* finds the own properties and also what the object inherits from         *)
(* Object.prototype.                                                       *)
(***************************************************************************)
\* the own properties of importRegexes
ImportRegexes == {"typescript", "javascript", "python", "java", "csharp", "default"}

\* the properties every object literal inherits; none of their values is falsy
\* and none has a property exec
ObjectPrototypeKeys ==
    {"constructor", "hasOwnProperty", "isPrototypeOf", "propertyIsEnumerable",
     "toLocaleString", "toString", "valueOf", "__proto__", "__defineGetter__",
     "__defineSetter__", "__lookupGetter__", "__lookupSetter__"}

\* importRegexes[language] || importRegexes.default, named by the property found
LangRegex(language) ==
    IF language \in ImportRegexes THEN language
    ELSE IF language \in ObjectPrototypeKeys THEN "inherited"
    ELSE "default"

\* /(?:from\s+([^\s]+)\s+import|import\s+([^\s]+))/
PythonImportAt(s, i) ==
    LET a == ScanIn(s, i + 4, SpaceChars)
        b == ScanNotIn(s, a, SpaceChars)
        c == ScanIn(s, b, SpaceChars)
        fromImport == /\ Sub(s, i, i + 3) = "from"
                      /\ a > i + 4
                      /\ b > a
                      /\ c > b
                      /\ Sub(s, c, c + 5) = "import"
        d == ScanIn(s, i + 6, SpaceChars)
        e == ScanNotIn(s, d, SpaceChars)
        plain == /\ Sub(s, i, i + 5) = "import"
                 /\ d > i + 6
                 /\ e > d
    IN  IF fromImport THEN c + 6
        ELSE IF plain THEN e
        ELSE 0

\* keyword\s+([^;]+);  the space run gives a character back to [^;]+ when a
\* ";" follows it
StatementImportAt(s, i, keyword) ==
    LET a == i + Len(keyword)
        g == ScanNotIn(s, a, {";"})
    IN  IF /\ Sub(s, i, a - 1) = keyword
           /\ Ch(s, a) \in SpaceChars
           /\ g > a + 1
           /\ g <= Len(s)
        THEN g + 1
        ELSE 0

\* /import\s+([^;]+);/
JavaImportAt(s, i) == StatementImportAt(s, i, "import")

\* /using\s+([^;]+);/
CsharpUsingAt(s, i) == StatementImportAt(s, i, "using")

\* /import|using|include|require/
DefaultImportAt(s, i) ==
    IF Sub(s, i, i + 5) = "import" THEN i + 6
    ELSE IF Sub(s, i, i + 4) = "using" THEN i + 5
    ELSE IF Sub(s, i, i + 6) \in {"include", "require"} THEN i + 7
    ELSE 0

\* the exec loop on langRegex
ImportMatches(code, regex) ==
    CASE regex \in {"typescript", "javascript"} -> GlobalMatches(ImportElementAt, code, 1)
      [] regex = "python" -> GlobalMatches(PythonImportAt, code, 1)
      [] regex = "java" -> GlobalMatches(JavaImportAt, code, 1)
      [] regex = "csharp" -> GlobalMatches(CsharpUsingAt, code, 1)
      [] OTHER -> GlobalMatches(DefaultImportAt, code, 1)

\* extractStructuralElements(code, language)
StructuralElementsIn(code, language) ==
    ElementsOf("import", ImportMatches(code, LangRegex(language)), ImportImportance)
    \o ElementsOf("function", GlobalMatches(FunctionAt, code, 1), FunctionImportance)
    \o ElementsOf("class", GlobalMatches(ClassAt, code, 1), ClassImportance)
    \o ElementsOf("variable", GlobalMatches(VariableAt, code, 1), VariableImportance)

\* generateCodeFingerprint(code, language): langRegex.exec(code) is a TypeError
\* when the lookup found an inherited property, and nothing catches it
FingerprintCall(code, language) ==
    IF LangRegex(language) = "inherited"
    THEN [called |-> TRUE, code |-> code, language |-> language,
          importRule |-> "inherited", threw |-> TRUE]
    ELSE [called |-> TRUE, code |-> code, language |-> language,
          importRule |-> LangRegex(language), threw |-> FALSE,
          fingerprint |->
              [originalText |-> code,
               lineCount |-> Len(SplitLines(code)),
               structuralElements |-> StructuralElementsIn(code, language),
               identifiers |-> ExtractSignificantIdentifiers(code),
               language |-> language,
               semanticPatterns |-> ExtractSemanticPatterns(code)]]

\* document.languageId: the ids of the editor and ids a language extension
\* contributes, which are free strings
LanguageTags ==
    {"typescript", "javascript", "python", "java", "csharp", "default",
     "plaintext", "go", "cpp", "", "constructor", "toString", "valueOf", "__proto__"}

LangTexts ==
    {"",
     "import x from 'y';",
     "import os",
     "from os import path",
     "import java.util.List;",
     "using System;",
     "#include <stdio.h>",
     "const fs = require('fs');",
     "import;",
     FunctionSnippet}

InitLang == Init

\* a region is created or refreshed for a document of some language
CreateFingerprint ==
    /\ \E code \in LangTexts, language \in LanguageTags :
           fingerprintCall' = FingerprintCall(code, language)
    /\ UNCHANGED << ledgerVars, tick, fpVars, statsData, storeEvent, logFiles,
                    hostVars >>

NextLang == CreateFingerprint

SpecLang == InitLang /\ [][NextLang]_vars


(***************************************************************************)
(* Properties of the existence evaluator (SpecFP)                          *)
(***************************************************************************)
\* the largest line count and element count the threshold is compared over
MaxLineCount == 12
MaxElementCount == 4

\* the fingerprint with another line count and another number of elements
Reshaped(fingerprint, lineCount, elementCount) ==
    [fingerprint EXCEPT
        !.lineCount = lineCount,
        !.structuralElements =
            [ k \in 1..elementCount |->
                [type |-> "variable", pattern |-> "", importance |-> VariableImportance] ]]

\* the last result was computed on the document by the analysis, not by the
\* quick check
AnalysedNow ==
    fpTracked /\ ~Includes(fpContent, fpRegion.fingerprint.originalText)

\* C1: whenever the document holds the fingerprint's original text verbatim,
\* the result of the evaluation is exists, not modified, confidence 1, whatever
\* the elements, identifiers, patterns and line count of the fingerprint
C1_ExactTextIsUnchanged ==
    (fpTracked /\ Includes(fpContent, fpRegion.fingerprint.originalText)) =>
        /\ fpRegion.lastTrackingResult.exists
        /\ ~fpRegion.lastTrackingResult.modified
        /\ fpRegion.lastTrackingResult.confidence.num
               = fpRegion.lastTrackingResult.confidence.den

\* a one-line fragment, which the analysis alone scores below its threshold,
\* was tracked in a document that holds it between other lines
C1_Witness ==
    /\ fpTracked
    /\ fpRegion.fingerprint.lineCount = 1
    /\ fpContent # fpRegion.fingerprint.originalText
    /\ Includes(fpContent, fpRegion.fingerprint.originalText)
    /\ fpRegion.lastTrackingResult.matchType = "exact_match"

\* C2: the existence threshold of every fingerprint lies in [0.1, 0.7]; with
\* the element count fixed it does not rise when the line count rises, and with
\* the line count fixed it does not rise when the element count rises
C2_ThresholdBoundedAndMonotone ==
    fpRegion.hasFingerprint =>
        /\ CalculateExistenceThreshold(fpRegion.fingerprint) \in 1..7
        /\ \A l \in 0..MaxLineCount, e \in 0..MaxElementCount :
               CalculateExistenceThreshold(Reshaped(fpRegion.fingerprint, l, e))
                   \in 1..7
        /\ \A l1, l2 \in 0..MaxLineCount, e \in 0..MaxElementCount :
               l1 <= l2 =>
                   CalculateExistenceThreshold(Reshaped(fpRegion.fingerprint, l2, e))
                       <= CalculateExistenceThreshold(
                              Reshaped(fpRegion.fingerprint, l1, e))
        /\ \A l \in 0..MaxLineCount, e1, e2 \in 0..MaxElementCount :
               e1 <= e2 =>
                   CalculateExistenceThreshold(Reshaped(fpRegion.fingerprint, l, e2))
                       <= CalculateExistenceThreshold(
                              Reshaped(fpRegion.fingerprint, l, e1))
        \* the fingerprint itself against every other shape
        /\ \A l \in 0..MaxLineCount :
               (l >= fpRegion.fingerprint.lineCount) =>
                   CalculateExistenceThreshold(
                       Reshaped(fpRegion.fingerprint, l,
                                Len(fpRegion.fingerprint.structuralElements)))
                       <= CalculateExistenceThreshold(fpRegion.fingerprint)

\* a fragment of ten lines with three structural elements was evaluated against
\* its threshold, the lowest one
C2_Witness ==
    /\ AnalysedNow
    /\ fpRegion.fingerprint.lineCount >= 10
    /\ Len(fpRegion.fingerprint.structuralElements) >= 3
    /\ CalculateExistenceThreshold(fpRegion.fingerprint) = 1
    /\ fpRegion.lastTrackingResult.exists

\* C3: when the exact text is not in the document, exists holds iff the
\* confidence reaches the threshold and modified holds iff exists holds and the
\* confidence is below the threshold plus 0.2; in every result modified implies
\* exists and the confidence is within [0, 1]
C3_VerdictFollowsThreshold ==
    fpTracked =>
        /\ fpRegion.lastTrackingResult.modified => fpRegion.lastTrackingResult.exists
        /\ fpRegion.lastTrackingResult.confidence.den > 0
        /\ fpRegion.lastTrackingResult.confidence.num >= 0
        /\ fpRegion.lastTrackingResult.confidence.num
               <= fpRegion.lastTrackingResult.confidence.den
        /\ AnalysedNow =>
            /\ fpRegion.lastTrackingResult.exists <=>
                   10 * fpRegion.lastTrackingResult.confidence.num
                       >= CalculateExistenceThreshold(fpRegion.fingerprint)
                              * fpRegion.lastTrackingResult.confidence.den
            /\ fpRegion.lastTrackingResult.modified <=>
                   /\ fpRegion.lastTrackingResult.exists
                   /\ 10 * fpRegion.lastTrackingResult.confidence.num
                          < (CalculateExistenceThreshold(fpRegion.fingerprint) + 2)
                                * fpRegion.lastTrackingResult.confidence.den

\* the analysis found a fragment below the threshold plus 0.2: it exists and
\* is modified
C3_Witness ==
    /\ AnalysedNow
    /\ fpRegion.lastTrackingResult.exists
    /\ fpRegion.lastTrackingResult.modified
    /\ fpRegion.modified
    /\ ~fpRegion.deleted

\* a variable element of the fingerprint whose pattern the document holds
VariableElementMatches ==
    \E k \in 1..Len(fpRegion.fingerprint.structuralElements) :
        /\ fpRegion.fingerprint.structuralElements[k].type = "variable"
        /\ Includes(fpContent, fpRegion.fingerprint.structuralElements[k].pattern)

\* every identifier of the fingerprint is in the document
IdentifiersMatch ==
    /\ Len(fpRegion.fingerprint.identifiers) > 0
    /\ \A k \in 1..Len(fpRegion.fingerprint.identifiers) :
           Includes(fpContent, fpRegion.fingerprint.identifiers[k])

\* C4: a one-line fragment whose exact text is gone from the document while its
\* identifier and its variable element still match is found existing and
\* modified, not deleted, with a confidence above 0.5
C4_SingleLineEditIsModified ==
    (/\ AnalysedNow
     /\ fpRegion.fingerprint.lineCount = 1
     /\ IdentifiersMatch
     /\ VariableElementMatches) =>
        /\ fpRegion.lastTrackingResult.exists
        /\ fpRegion.lastTrackingResult.modified
        /\ ~fpRegion.deleted
        /\ 10 * fpRegion.lastTrackingResult.confidence.num
               > 5 * fpRegion.lastTrackingResult.confidence.den

(***************************************************************************)
(* Properties of the region ledger (Spec, FairSpec)                        *)
(***************************************************************************)
\* the sum of the confidences of the methods whose flag is set
WeightOf(flags, confidences) ==
    Flag(flags[1]) * confidences[1] + Flag(flags[2]) * confidences[2]
    + Flag(flags[3]) * confidences[3] + Flag(flags[4]) * confidences[4]

\* the confidences, the modification flags and the deletion flags of the four
\* methods in the last evaluation of a region
MethodConfidences(id) ==
    << evalLog[id].line.confidence, evalLog[id].semantic.confidence,
       evalLog[id].snapshot.confidence, evalLog[id].import.confidence >>

ModificationFlags(id) ==
    << evalLog[id].line.modificationDetected, evalLog[id].semantic.modificationDetected,
       evalLog[id].snapshot.modificationDetected,
       evalLog[id].import.modificationDetected >>

DeletionFlags(id) ==
    << evalLog[id].line.deletionDetected, evalLog[id].semantic.deletionDetected,
       evalLog[id].snapshot.deletionDetected, evalLog[id].import.deletionDetected >>

Evaluated(id) == evalLog[id].latest # NoResults

\* C5: the fused scores are the confidence-weighted averages of the methods'
\* flags, a method that does not apply weighing 0; fused modification iff the
\* modification score exceeds 0.5, fused deletion iff the deletion score
\* exceeds 0.5 for a fragment that is no import and 0.7 for an import
C5_FusionIsWeightedAverage ==
    \A id \in 1..MaxRegions :
        Evaluated(id) =>
            /\ ~evalLog[id].onSave => evalLog[id].snapshot.confidence = 0
            /\ ~evalLog[id].isImport => evalLog[id].import.confidence = 0
            /\ evalLog[id].latest.modificationDetected <=>
                   2 * WeightOf(ModificationFlags(id), MethodConfidences(id))
                       > WeightOf(<< TRUE, TRUE, TRUE, TRUE >>, MethodConfidences(id))
            /\ evalLog[id].latest.deletionDetected <=>
                   IF evalLog[id].isImport
                   THEN 10 * WeightOf(DeletionFlags(id), MethodConfidences(id))
                            > 7 * WeightOf(<< TRUE, TRUE, TRUE, TRUE >>,
                                           MethodConfidences(id))
                   ELSE 2 * WeightOf(DeletionFlags(id), MethodConfidences(id))
                            > WeightOf(<< TRUE, TRUE, TRUE, TRUE >>,
                                       MethodConfidences(id))

\* a save pass fused the four methods for an import and a method that flagged
\* deletion was outvoted
C5_Witness ==
    \E id \in 1..MaxRegions :
        /\ Evaluated(id)
        /\ evalLog[id].isImport
        /\ evalLog[id].snapshot.confidence > 0
        /\ \E k \in 1..4 : DeletionFlags(id)[k]
        /\ ~evalLog[id].latest.deletionDetected

\* C6: for an import, when the import check finds the import present the fused
\* verdict is not deletion, whatever the other three methods report, on save
\* passes and on periodic passes
C6_PresentImportIsNotDeleted ==
    \A id \in 1..MaxRegions :
        (Evaluated(id) /\ evalLog[id].isImport /\ ~evalLog[id].import.deletionDetected)
            => /\ ~evalLog[id].latest.deletionDetected
               /\ id \notin deletionVerdicts

\* the region with this id is in the active set
Active(id) == HasId(aiGeneratedRegions, id)

\* the texts of the active regions with this id
ActiveTexts(id) ==
    { aiGeneratedRegions[k].text :
        k \in { j \in 1..Len(aiGeneratedRegions) : aiGeneratedRegions[j].id = id } }

\* no word of the fragment is left in the document
FullyRemoved(id) ==
    \A text \in ActiveTexts(id) :
        \A k \in 1..Len(TokensFrom(text, 1)) :
            ~Includes(docText, TokensFrom(text, 1)[k])

\* the region was classified deleted
Deleted(id) == ~Active(id) /\ HasId(deletedAICode, id)

\* C7: while passes keep occurring, an active region whose fragment is fully
\* removed from the document is eventually classified deleted: it does not stay
\* in the active set forever
C7_RemovedIsEventuallyDeleted ==
    \A id \in 1..MaxRegions :
        (Active(id) /\ FullyRemoved(id) /\ trackingEnabled)
            ~> (Deleted(id) \/ ~FullyRemoved(id) \/ ~trackingEnabled)

\* C8: two passes of the same kind with no document change between them reach
\* the same fused verdict
C8_TrackingIsIdempotent ==
    \A id \in 1..MaxRegions : ~evalLog[id].changed

\* the number of records with this id
RecordsOf(records, id) ==
    Cardinality({ k \in 1..Len(records) : records[k].id = id })

FlaggedModified(regions, id) ==
    /\ HasId(regions, id)
    /\ \A k \in 1..Len(regions) : regions[k].id = id => regions[k].modified

C12_NoIdInBothLists ==
    statsData.shown = "stats" =>
        IdsOf(statsData.reconciled.deletions)
            \cap IdsOf(statsData.reconciled.modifications) = {}

\* a history with an id twice in the deletions and in the modifications as well
\* was reconciled: the deletions of the id are gone, its modification stays
C12_Witness ==
    /\ statsData.shown = "stats"
    /\ \E id \in 1..2 :
           /\ RecordsOf(modLogFile.deletions, id) = 2
           /\ HasId(modLogFile.modifications, id)
           /\ ~HasId(statsData.reconciled.deletions, id)
           /\ HasId(statsData.reconciled.modifications, id)

\* no significant token of the text is in the content
TokensGone(text, content) ==
    \A k \in 1..Len(ExtractSignificantTokens(text)) :
        ~Includes(content, ExtractSignificantTokens(text)[k])

\* the history holds one modification record and one deletion record of the id,
\* the modification strictly before the deletion and less than 10 seconds apart
QuickModifyThenDelete(id) ==
    /\ RecordsOf(modLogFile.modifications, id) = 1
    /\ RecordsOf(modLogFile.deletions, id) = 1
    /\ \E m \in 1..Len(modLogFile.modifications), d \in 1..Len(modLogFile.deletions) :
           /\ modLogFile.modifications[m].id = id
           /\ modLogFile.deletions[d].id = id
           /\ modLogFile.modifications[m].modificationTimestamp
                  < modLogFile.deletions[d].deletionTimestamp
           /\ modLogFile.deletions[d].deletionTimestamp
                  - modLogFile.modifications[m].modificationTimestamp < TimeThreshold

\* C13: an id modified and then, less than 10 seconds later, deleted, whose
\* fragment is not a short statement and has no token left in the file, is
\* reported by the statistics as deleted and not as modified
C13_QuickDeletionIsDeletionOnly ==
    statsData.shown = "stats" =>
        \A id \in 1..2 :
            (/\ QuickModifyThenDelete(id)
             /\ ~IsShortStatement(StatsTexts[id])
             /\ TokensGone(StatsTexts[id], docText))
                => /\ id \in statsData.counts.deleted
                   /\ id \notin statsData.counts.modified

\* the list in the opposite order
Reversed(records) == [ k \in 1..Len(records) |-> records[Len(records) + 1 - k] ]

\* the records of the list with this id, in their order
RECURSIVE OnlyId(_, _)
OnlyId(records, id) ==
    IF Len(records) = 0 THEN << >>
    ELSE (IF Head(records).id = id THEN << Head(records) >> ELSE << >>)
         \o OnlyId(Tail(records), id)

\* what a reconciled output says of an id: whether it is among the deletions,
\* among the modifications, and among the modifications kept for the statistics
Classification(reconciled, id) ==
    << HasId(reconciled.deletions, id), HasId(reconciled.modifications, id),
       HasId(reconciled.filteredModifications, id) >>

StillFound(text, content) ==
    \/ Includes(content, Trim(text))
    \/ /\ Len(text) >= ShortStatementLimit
       /\ Len(ExtractSignificantTokens(text)) > 0
       /\ 10 * Cardinality({ k \in 1..Len(ExtractSignificantTokens(text)) :
                               Includes(content, ExtractSignificantTokens(text)[k]) })
              >= 6 * Len(ExtractSignificantTokens(text))

\* C15: after performFinalValidation every deletion record whose fragment is
\* still found in the file is reclassified: its id is not among the deletions
\* and has a modification record, also when the id had a modification record
\* before and when the fragment is 30 characters or longer
C15_FoundDeletionIsReclassified ==
    statsData.shown = "validation" =>
        \A k \in 1..Len(modLogFile.deletions) :
            StillFound(modLogFile.deletions[k].originalText, docText) =>
                /\ ~HasId(statsData.validated.deletions, modLogFile.deletions[k].id)
                /\ HasId(statsData.validated.modifications, modLogFile.deletions[k].id)

\* C16: after performFinalValidation a deletion record whose fragment is fully
\* gone from the file, its text and every one of its identifiers, is still among
\* the deletions and its id has got no modification record, whatever its
\* confidence score and whatever happens to the other records in the pass
C16_GoneDeletionStays ==
    statsData.shown = "validation" =>
        \A k \in 1..Len(modLogFile.deletions) :
            (/\ ~Includes(docText, Trim(modLogFile.deletions[k].originalText))
             /\ TokensGone(modLogFile.deletions[k].originalText, docText))
                => /\ \E j \in 1..Len(statsData.validated.deletions) :
                          statsData.validated.deletions[j] = modLogFile.deletions[k]
                   /\ HasId(statsData.validated.modifications, modLogFile.deletions[k].id)
                          => HasId(modLogFile.modifications, modLogFile.deletions[k].id)

(***************************************************************************)
(* Properties of a pass in which an evaluation fails (SpecSession)         *)
(***************************************************************************)
\* what the interval timer's pass computes for the region on the document
PeriodicVerdict(region) ==
    EvaluateRegion(docText, region.text, FALSE, documentSnapshots)

\* C17: in a pass in which the evaluation of one region throws, every other
\* active region still gets its verdict applied and the modification data is
\* saved: a region the verdict finds deleted leaves the active set and has its
\* deletion record in the log, a region it newly finds modified has its
\* modification record in the log
C17_FailureIsContained ==
    [][(/\ tick' # tick
        /\ \E r \in 1..Len(aiGeneratedRegions) :
               PeriodicVerdict(aiGeneratedRegions[r]).threw)
       => \A q \in 1..Len(aiGeneratedRegions) :
              ~PeriodicVerdict(aiGeneratedRegions[q]).threw =>
                  /\ PeriodicVerdict(aiGeneratedRegions[q]).results.deletionDetected
                         => /\ ~HasId(aiGeneratedRegions', aiGeneratedRegions[q].id)
                            /\ HasId(modLogFile'.deletions, aiGeneratedRegions[q].id)
                  /\ ShouldRecordModification(
                         PeriodicVerdict(aiGeneratedRegions[q]).results,
                         aiGeneratedRegions[q])
                         => HasId(modLogFile'.modifications, aiGeneratedRegions[q].id)
      ]_vars

(***************************************************************************)
(* Properties of fingerprinting under a language tag (SpecLang)            *)
(***************************************************************************)
RecognisedLanguages == {"typescript", "javascript", "python", "java", "csharp"}

\* C18: generateCodeFingerprint returns a fingerprint without throwing for every
\* text and every language tag, and every tag that is not a recognised language
\* selects the generic fallback import rule.
C18_FingerprintNeverThrows ==
    fingerprintCall.called =>
        /\ ~fingerprintCall.threw
        /\ fingerprintCall.language \notin RecognisedLanguages
               => fingerprintCall.importRule = "default"

(***************************************************************************)
(* Properties of the handlers on damaged log files (SpecStore)             *)
(***************************************************************************)
\* C19: when the modification log or the suggestion log a handler loads is
\* unreadable or corrupt, no exception escapes the handler and the suggestion
\* entry and the modification and deletion records of the event are in the
\* store afterwards.
C19_DamagedLogIsRecovered ==
    storeEvent.kind \in {"change", "pass"} /\ storeEvent.damaged =>
        /\ ~storeEvent.threw
        /\ storeEvent.modifications \subseteq IdsOf(modLogFile.modifications)
        /\ storeEvent.deletions \subseteq IdsOf(modLogFile.deletions)
        /\ storeEvent.suggestions \subseteq IdsOf(suggestionLog)

(***************************************************************************)
(* Properties of the persisted history (Spec)                              *)
(***************************************************************************)
\* every record of the list xs is a record of the list ys
KeptIn(xs, ys) == \A k \in 1..Len(xs) : \E j \in 1..Len(ys) : ys[j] = xs[k]

C21_EveryRegionIsEvaluated ==
    [][(/\ tick' # tick
        /\ \A k \in 1..Len(aiGeneratedRegions) :
               ~PeriodicVerdict(aiGeneratedRegions[k]).threw)
           => \A k \in 1..Len(aiGeneratedRegions) :
                  evalLog'[aiGeneratedRegions[k].id].latest # NoResults]_vars

(***************************************************************************)
(* Properties of trackCodeChanges (SpecFP)                                 *)
(***************************************************************************)
\* C22: trackCodeChanges classifies the region as exactly one of unchanged,
\* modified and deleted, never unknown: deleted iff the evaluation says the
\* code does not exist, modified iff it exists and is modified, unchanged
\* otherwise; after the call the flags modified and deleted of the region are
\* not both set, and they are those of the result the region keeps.
C22_ExactlyOneClassification ==
    fpTracked =>
        /\ fpRegion.lastTrackingResult.changeType \in {"unchanged", "modified", "deleted"}
        /\ fpRegion.lastTrackingResult.changeType = "deleted"
               <=> ~fpRegion.lastTrackingResult.exists
        /\ fpRegion.lastTrackingResult.changeType = "modified"
               <=> (fpRegion.lastTrackingResult.exists
                    /\ fpRegion.lastTrackingResult.modified)
        /\ ~(fpRegion.modified /\ fpRegion.deleted)
        /\ fpRegion.modified = fpRegion.lastTrackingResult.modified
        /\ fpRegion.deleted = ~fpRegion.lastTrackingResult.exists

\* a call classified the region modified: the analysis scored it between the
\* existence threshold and the modification threshold
C22_Witness ==
    /\ fpTracked
    /\ fpRegion.lastTrackingResult.changeType = "modified"
    /\ fpRegion.modified
    /\ ~fpRegion.deleted

\* C23: over repeated calls of trackCodeChanges on a region, no call sets the
\* flag deleted back to false once a call has set it, and no call sets the flag
\* modified back to false while the region is not deleted.
C23_NoBackwardEdge ==
    [][fpTracked' =>
           /\ fpRegion.deleted => fpRegion'.deleted
           /\ (fpRegion.modified /\ ~fpRegion'.deleted) => fpRegion'.modified]_vars

(***************************************************************************)
(* Properties of the listeners on the extension's own files (SpecFiles)    *)
(***************************************************************************)
\* C24: for a document named coden.json or coden_mod.json no change event, save
\* or periodic check runs a tracking pass on it or adds an entry for it to the
\* ledger or to the modification log.
C24_OwnFilesAreNotTracked ==
    docName \in {LogFileName, ModLogFileName} =>
        /\ docName \notin trackedFiles.passes
        /\ docName \notin trackedFiles.entries
        /\ aiGeneratedRegions = << >>
        /\ modifiedAICode = << >>
        /\ deletedAICode = << >>

\* the fingerprint has at most one line, or fewer than ten lines and no
\* structural element
DampedFingerprint(fingerprint) ==
    \/ fingerprint.lineCount = 1
    \/ fingerprint.lineCount < 10 /\ Len(fingerprint.structuralElements) = 0

\* the match results of a document in which every element, identifier and
\* pattern of the fingerprint is found; without elements the structural score
\* is 0
EverythingFound(fingerprint) ==
    [structuralMatches |-> IF Len(fingerprint.structuralElements) > 0
                           THEN [num |-> 1, den |-> 1] ELSE [num |-> 0, den |-> 1],
     identifierMatches |-> [num |-> 1, den |-> 1],
     patternMatches |-> [num |-> 1, den |-> 1]]

\* C25: for a fragment of one line, and for a fragment of fewer than ten lines
\* with no structural element, checkCodeExistence answers exists = false
\* whenever the exact text is absent, whatever else of the fingerprint is found:
\* the region is classified deleted.
C25_DampedFragmentIsDeleted ==
    /\ (AnalysedNow /\ DampedFingerprint(fpRegion.fingerprint)) =>
           /\ ~fpRegion.lastTrackingResult.exists
           /\ fpRegion.lastTrackingResult.changeType = "deleted"
           /\ fpRegion.deleted
    \* every shape of the fingerprint, with everything it has found
    /\ fpRegion.hasFingerprint =>
           \A l \in 1..MaxLineCount, e \in 0..MaxElementCount :
               DampedFingerprint(Reshaped(fpRegion.fingerprint, l, e)) =>
                   ~ExistenceVerdict(
                        CalculateConfidence(
                            EverythingFound(Reshaped(fpRegion.fingerprint, l, e)),
                            Reshaped(fpRegion.fingerprint, l, e)),
                        CalculateExistenceThreshold(
                            Reshaped(fpRegion.fingerprint, l, e))).exists

\* such a fragment was tracked in a document that lacks the exact text and
\* holds every identifier, every structural pattern and every semantic pattern
\* of the fingerprint, and was classified deleted
C25_Witness ==
    /\ AnalysedNow
    /\ DampedFingerprint(fpRegion.fingerprint)
    /\ Len(fpRegion.fingerprint.identifiers) > 0
    /\ \A k \in 1..Len(fpRegion.fingerprint.identifiers) :
           Includes(fpContent, fpRegion.fingerprint.identifiers[k])
    /\ \A k \in 1..Len(fpRegion.fingerprint.structuralElements) :
           Includes(fpContent, fpRegion.fingerprint.structuralElements[k].pattern)
    /\ \A k \in 1..Len(fpRegion.fingerprint.semanticPatterns) :
           Includes(fpContent, fpRegion.fingerprint.semanticPatterns[k])
    /\ fpRegion.deleted


\* C26: on a pass without a usable snapshot (a periodic pass, or a save pass
\* with no stored snapshot) the snapshot method weighs 0, and for every region
\* that is no import the fused modification and deletion flags equal the
\* semantic-anchor method's flags, whatever the line-similarity method reports
C26_SemanticMethodDecides ==
    \A id \in 1..MaxRegions :
        Evaluated(id) =>
            /\ ~evalLog[id].onSave => evalLog[id].snapshot = NotApplicable
            /\ (~evalLog[id].isImport /\ evalLog[id].snapshot.confidence = 0) =>
                   /\ evalLog[id].latest.modificationDetected
                          = evalLog[id].semantic.modificationDetected
                   /\ evalLog[id].latest.deletionDetected
                          = evalLog[id].semantic.deletionDetected

\* a pass without a snapshot evaluated a region that is no import and the
\* line-similarity method disagreed with the semantic-anchor method
C26_Witness ==
    \E id \in 1..MaxRegions :
        /\ Evaluated(id)
        /\ ~evalLog[id].isImport
        /\ evalLog[id].snapshot.confidence = 0
        /\ \/ evalLog[id].line.modificationDetected
                  # evalLog[id].semantic.modificationDetected
           \/ evalLog[id].line.deletionDetected
                  # evalLog[id].semantic.deletionDetected


\* C27: while tracking is disabled no step changes the ledger: the active
\* regions, the in-memory modification and deletion lists, the suggestion log
\* and the modification log stay as they are, and the document snapshot changes
\* only by an open event, never by a save; the step that enables tracking again
\* leaves the same state
C27_DisabledTrackingLeavesLedger ==
    [][~trackingEnabled =>
           /\ UNCHANGED << aiGeneratedRegions, modifiedAICode, deletedAICode,
                           suggestionLog, modLogFile, nextId >>
           /\ documentSnapshots' # documentSnapshots =>
                  (recentlyOpened' /\ docText' = docText)]_vars

\* tracking is disabled and the document no longer holds the text of an active,
\* unflagged region of which the ledger has no record
C27_Witness ==
    /\ ~trackingEnabled
    /\ \E k \in 1..Len(aiGeneratedRegions) :
           /\ ~aiGeneratedRegions[k].modified
           /\ ~Includes(docText, aiGeneratedRegions[k].text)
           /\ ~HasId(modLogFile.modifications, aiGeneratedRegions[k].id)
           /\ ~HasId(modLogFile.deletions, aiGeneratedRegions[k].id)
           /\ ~HasId(modifiedAICode, aiGeneratedRegions[k].id)
           /\ ~HasId(deletedAICode, aiGeneratedRegions[k].id)


(***************************************************************************)
(* Properties of the final validation and of the status bar                *)
(***************************************************************************)
\* what a validated history has made of the deletion record of an id
ValidationOutcome(validated, id) ==
    IF HasId(validated.deletions, id) THEN "kept"
    ELSE IF HasId(validated.modifications, id) THEN "moved"
    ELSE "dropped"

\* the history with, of its deletion records, the k-th alone
WithDeletionAlone(fileData, k) ==
    [fileData EXCEPT !.deletions = << fileData.deletions[k] >>]

\* C28: the outcome performFinalValidation gives to a deletion record (kept in
\* the deletions, moved to the modifications, or dropped) is the outcome it
\* gives to the record on the same file content and the same modifications
\* when the other deletion records, of other ids, are not there
C28_OutcomeIsPerRecord ==
    statsData.shown = "validation" =>
        \A k \in 1..Len(modLogFile.deletions) :
            (\A j \in 1..Len(modLogFile.deletions) :
                 j # k => modLogFile.deletions[j].id # modLogFile.deletions[k].id)
                => ValidationOutcome(statsData.validated, modLogFile.deletions[k].id)
                       = ValidationOutcome(
                             PerformFinalValidation(WithDeletionAlone(modLogFile, k),
                                                    docText),
                             modLogFile.deletions[k].id)


\* C29: the final validation at the end of a pass and the reconciliation and
\* validation of the statistics command change the in-memory copy only: the
\* step that runs them leaves the persisted modification log exactly as it was
\* saved, so what they reclassify is not persisted
C29_ValidationIsNotPersisted ==
    [][(statsData' # statsData /\ statsData'.shown # "none")
           => modLogFile' = modLogFile]_vars

\* the final validation has reclassified a deletion record that the persisted
\* log still holds as a deletion
C29_Witness ==
    /\ statsData.shown = "validation"
    /\ \E k \in 1..Len(modLogFile.deletions) :
           /\ ~HasId(statsData.validated.deletions, modLogFile.deletions[k].id)
           /\ HasId(statsData.validated.modifications, modLogFile.deletions[k].id)
           /\ ~HasId(modLogFile.modifications, modLogFile.deletions[k].id)


\* C30: once every pending restore timer of saveToLogFile has fired, the status
\* bar shows the idle text it had before the first suggestion was logged, for
\* any number of logged suggestions and any interleaving of logs and timers
C30_StatusBarReturnsToIdle ==
    restoreTimers = << >> => statusBarText = IdleText

====
